---- MODULE Spec2Model ----
(***************************************************************************)
(* State-machine model of the TingeTape audio processor                    *)
(* (plugins/TingeTape/Source/PluginProcessor.{h,cpp}) and of the shared    *)
(* SmoothingFilter / sanitizeFloat utilities (shared/TylerAudioCommon.h).  *)
(*                                                                         *)
(* Numbers.  Floating-point quantities are fixed-point integers:           *)
(*   parameter and smoother values   1/ParamUnit of the parameter's unit   *)
(*   smoothing coefficients          1/CoeffUnit                           *)
(*   normalised depth / drive / tone 1/DepthUnit                           *)
(*   LFO output                      1/LfoUnit                             *)
(*   delays                          1/DelayUnit of a sample               *)
(*   audio samples                   records [k, v]: k = "fin" with v in   *)
(*                                   1/AmpUnit, or "den" (a subnormal),    *)
(*                                   "inf", "nan"                          *)
(* The juce::dsp library objects (IIR filters, DelayLine, Oscillator) are  *)
(* not part of the repository; they are modelled by first-order recursive  *)
(* filters, a circular buffer with linear interpolation and a phase        *)
(* counter with a sine approximation.                                      *)
(***************************************************************************)
EXTENDS Integers, Sequences, FiniteSets, TLC

\* ---------------------------------------------------------------- units
ParamUnit == 10
CoeffUnit == 10000
DepthUnit == 1000
LfoUnit   == 100
DelayUnit == 100
AmpUnit   == 100
MsUnit    == LfoUnit * DepthUnit

\* ---------------------------------------------------------------- bounds
MaxBlock == 2
MaxOps   == 3
MaxWrites == 1
MaxWowOps == 2
MaxSmoothOps == 5
MaxCoeffOps == 3
MaxUnitOps == 3

\* ------------------------------------------------------- integer helpers
Abs(n) == IF n < 0 THEN -n ELSE n

Min(a, b) == IF a < b THEN a ELSE b

Max(a, b) == IF a > b THEN a ELSE b

\* division rounding toward zero, as a float-to-fixed truncation
TDiv(a, b) == IF a >= 0 THEN a \div b ELSE -((-a) \div b)

\* floor(a * b / (c * 1000)) for b >= 0, c > 0, without leaving 32-bit range:
\* a = ah * (1000 c) + am * 1000 + an
MulDiv(a, b, c) ==
    LET ah == a \div (c * 1000)
        al == a % (c * 1000)
        am == al \div 1000
        an == al % 1000
    IN  ah * b + (am * b + (an * b) \div 1000) \div c

\* juce::jlimit(lo, hi, v)
jlimit(lo, hi, v) == IF v < lo THEN lo ELSE IF hi < v THEN hi ELSE v

\* juce::jmax(a, b)
jmax(a, b) == IF a < b THEN b ELSE a

\* ------------------------------------------------ audio sample arithmetic
Fin(v) == [k |-> "fin", v |-> v]

NaN == [k |-> "nan", v |-> 0]

Inf == [k |-> "inf", v |-> 1]

NegInf == [k |-> "inf", v |-> -1]

\* a subnormal (denormal) float
Den == [k |-> "den", v |-> 1]

Zero == Fin(0)

\* std::isfinite
IsFinite(x) == x.k \in {"fin", "den"}

\* processBlock runs under juce::ScopedNoDenormals: every arithmetic operation
\* reads a subnormal operand as zero and never produces one
Daz(x) == IF x.k = "den" THEN Zero ELSE x

SignOf(n) == IF n > 0 THEN 1 ELSE IF n < 0 THEN -1 ELSE 0

\* x * (n / d) for an integer ratio n/d, d > 0
FScale(x, n, d) ==
    LET a == Daz(x)
    IN  CASE a.k = "nan" -> NaN
          [] a.k = "inf" -> IF n = 0 THEN NaN ELSE [k |-> "inf", v |-> a.v * SignOf(n)]
          [] OTHER       -> Fin(TDiv(a.v * n, d))

FNeg(x) == FScale(x, -1, 1)

FAdd(x, y) ==
    LET a == Daz(x)
        b == Daz(y)
    IN  CASE a.k = "nan" \/ b.k = "nan" -> NaN
          [] a.k = "inf" /\ b.k = "inf" -> IF a.v = b.v THEN a ELSE NaN
          [] a.k = "inf" -> a
          [] b.k = "inf" -> b
          [] OTHER -> Fin(a.v + b.v)

FSub(x, y) == FAdd(x, FNeg(y))

\* TylerAudio::Utils::sanitizeFloat: (|value| < kDenormalThreshold) ? 0 : value.
\* A NaN compares false with everything, an infinity is not below the threshold.
sanitizeFloat(value) ==
    IF value.k = "den" \/ (value.k = "fin" /\ value.v = 0) THEN Zero ELSE value

\* ------------------------------------------------------------ parameters
SmootherIDs == {"wow", "lowCutFreq", "lowCutRes", "highCutFreq", "highCutRes", "dirt", "tone"}

ParamIDs == SmootherIDs \cup {"bypass"}

\* declared range of every parameter (createParameterLayout), in 1/ParamUnit
ParamMin ==
    [wow |-> 0, lowCutFreq |-> 20 * ParamUnit, lowCutRes |-> 1,
     highCutFreq |-> 5000 * ParamUnit, highCutRes |-> 1,
     dirt |-> 0, tone |-> -100 * ParamUnit, bypass |-> 0]

ParamMax ==
    [wow |-> 100 * ParamUnit, lowCutFreq |-> 200 * ParamUnit, lowCutRes |-> 2 * ParamUnit,
     highCutFreq |-> 20000 * ParamUnit, highCutRes |-> 2 * ParamUnit,
     dirt |-> 100 * ParamUnit, tone |-> 100 * ParamUnit, bypass |-> ParamUnit]

\* default value of every parameter (createParameterLayout); 0.707 is 7/10
ParamDefault ==
    [wow |-> 25 * ParamUnit, lowCutFreq |-> 40 * ParamUnit, lowCutRes |-> 7,
     highCutFreq |-> 15000 * ParamUnit, highCutRes |-> 7,
     dirt |-> 25 * ParamUnit, tone |-> 0, bypass |-> 0]

\* the values a control surface writes: the ends of each declared range
WriteValues(id) == {ParamMin[id], ParamMax[id]}

\* -------------------------------------------------------- SmoothingFilter
\* 1 - exp(-1/p) for p = timeCs * sampleRate / 100 > 0, by the series
\* x - x^2/2 + x^3/6 at x = 1/p, in 1/CoeffUnit (x is capped at 1)
OneMinusExpNeg(p100) ==
    LET x  == Min(CoeffUnit, (100 * CoeffUnit) \div p100)
        x2 == (x * x) \div CoeffUnit
        x3 == (x2 * x) \div CoeffUnit
    IN  x - x2 \div 2 + x3 \div 6

\* exp(1/q) - 1 for q > 0, by the series x + x^2/2 + x^3/6 at x = 1/q
ExpPosMinusOne(q100) ==
    LET x  == Min(CoeffUnit, (100 * CoeffUnit) \div q100)
        x2 == (x * x) \div CoeffUnit
        x3 == (x2 * x) \div CoeffUnit
    IN  x + x2 \div 2 + x3 \div 6

\* a setSmoothingTime that yields 1 + exp(-1 / (seconds * sampleRate))
setSmoothingTimeM(timeCs, sampleRate) ==
    2 * CoeffUnit - OneMinusExpNeg(Max(1, timeCs * sampleRate))

\* SmoothingFilter::setSmoothingTime: coeff = 1 - exp(-1 / (seconds * sampleRate)).
\* timeCs is the smoothing time in 1/100 s.  A zero product divides -1.0 by zero
\* (exp(-inf) = 0); a negative product makes the exponent positive.
setSmoothingTime(timeCs, sampleRate) ==
    LET p100 == timeCs * sampleRate
    IN  IF p100 > 0 THEN OneMinusExpNeg(p100)
        ELSE IF p100 = 0 THEN CoeffUnit
        ELSE -ExpPosMinusOne(-p100)

\* base + n / d rounded to the nearest grid value, a tie to the even one: the
\* rounding of a float addition
RoundedSum(base, n, d) ==
    LET q == n \div d
        r == n % d
    IN  IF 2 * r < d THEN base + q
        ELSE IF 2 * r > d THEN base + q + 1
        ELSE IF (base + q) % 2 = 0 THEN base + q ELSE base + q + 1

\* a getNextValue whose step has the wrong sign
SmoothStepM(current, target, coeff) ==
    RoundedSum(current, (current - target) * coeff, CoeffUnit)

\* the value SmoothingFilter::getNextValue leaves in currentValue
SmoothStep(current, target, coeff) ==
    RoundedSum(current, (target - current) * coeff, CoeffUnit)

\* a smoother as constructed: targetValue{0}, currentValue{0}, smoothingCoeff{0.01}
NewSmoother == [target |-> 0, current |-> 0, coeff |-> CoeffUnit \div 100]

\* SmoothingFilter::setTargetValue
Smoother_setTargetValue(sm, newValue) == [sm EXCEPT !.target = newValue]

\* SmoothingFilter::getNextValue, the filter after the call (the value returned is
\* sanitizeFloat(currentValue), which is currentValue on the fixed-point grid)
Smoother_getNextValue(sm) == [sm EXCEPT !.current = SmoothStep(sm.current, sm.target, sm.coeff)]

\* a snapToTarget that leaves currentValue where it was
Smoother_snapToTargetM(sm) == sm

\* SmoothingFilter::snapToTarget
Smoother_snapToTarget(sm) == [sm EXCEPT !.current = sm.target]

\* SmoothingFilter::setSmoothingTime on a filter
Smoother_setSmoothingTime(sm, timeCs, sampleRate) ==
    [sm EXCEPT !.coeff = setSmoothingTime(timeCs, sampleRate)]


\* ----------------------------------------------- juce::dsp::IIR (abstracted)
\* A coefficient set is kept as its design: the factory that made it and the
\* arguments it was given.  "thru" is the default-constructed pass-through set.
ThruCoeffs == [type |-> "thru", sampleRate |-> 0, freq |-> 0, q |-> 0, gain |-> DepthUnit]

MakeCoeffs(type, sampleRate, freq, q, gain) ==
    [type |-> type, sampleRate |-> sampleRate, freq |-> freq, q |-> q, gain |-> gain]

\* filter history: previous input and previous recursive output
NewIIRState == [x1 |-> Zero, y1 |-> Zero]

\* the recursive core: a first-order high-pass or low-pass section with its pole
\* at 1/2, so that the output depends on the whole input history
IIR_core(type, st, x) ==
    IF type \in {"hp", "highShelf"}
    THEN FScale(FAdd(FSub(x, st.x1), st.y1), 1, 2)
    ELSE FScale(FAdd(FAdd(x, st.x1), FScale(st.y1, 2, 1)), 1, 4)

\* IIR::Filter::processSample: [y |-> output, st |-> history after the sample]
IIR_processSample(coeffs, st, x) ==
    IF coeffs.type = "thru" THEN [y |-> Daz(x), st |-> [x1 |-> Daz(x), y1 |-> Daz(x)]]
    ELSE LET c == IIR_core(coeffs.type, st, x)
             y == IF coeffs.type \in {"hp", "lp"} THEN c
                  ELSE FAdd(Daz(x), FScale(c, coeffs.gain - DepthUnit, DepthUnit))
         IN  [y |-> y, st |-> [x1 |-> Daz(x), y1 |-> c]]

\* --------------------------------------- juce::dsp::DelayLine (abstracted)
\* totalSize = jmax(4, maxDelayInSamples + 1) zeroed slots, both cursors at 0
NewDelayLine(maxDelayInSamples) ==
    LET totalSize == jmax(4, maxDelayInSamples + 1)
    IN  [buf |-> [i \in 0..(totalSize - 1) |-> Zero], totalSize |-> totalSize,
         writePos |-> 0, readPos |-> 0, delay |-> 0]

\* DelayLine::reset: zero the buffer and the cursors (the delay is kept)
DelayLine_reset(dl) ==
    [dl EXCEPT !.buf = [i \in 0..(dl.totalSize - 1) |-> Zero], !.writePos = 0, !.readPos = 0]

\* DelayLine::setDelay: the delay limited to [0, totalSize - 1]
DelayLine_setDelay(dl, d) == [dl EXCEPT !.delay = jlimit(0, (dl.totalSize - 1) * DelayUnit, d)]

\* a push that moves the write cursor forwards instead of backwards
DelayLine_pushSampleM(dl, x) ==
    [dl EXCEPT !.buf[dl.writePos] = x,
               !.writePos = (dl.writePos + 1) % dl.totalSize]

\* DelayLine::pushSample
DelayLine_pushSample(dl, x) ==
    [dl EXCEPT !.buf[dl.writePos] = x,
               !.writePos = (dl.writePos + dl.totalSize - 1) % dl.totalSize]

\* DelayLine::popSample with linear interpolation, value1 + delayFrac *
\* (value2 - value1), computed also when delayFrac is zero: [y, dl]
DelayLine_popSample(dl) ==
    LET delayInt == dl.delay \div DelayUnit
        frac     == dl.delay % DelayUnit
        index1   == (dl.readPos + delayInt) % dl.totalSize
        index2   == (dl.readPos + delayInt + 1) % dl.totalSize
        v1       == dl.buf[index1]
        v2       == dl.buf[index2]
        y        == FAdd(v1, FScale(FSub(v2, v1), frac, DelayUnit))
    IN  [y |-> y,
         dl |-> [dl EXCEPT !.readPos = (dl.readPos + dl.totalSize - 1) % dl.totalSize]]

\* -------------------------------------- juce::dsp::Oscillator (abstracted)
\* the LFO phase counts samples; one period of kWowFrequency = 0.5 Hz is
\* 2 * sampleRate samples
LfoPeriod(sampleRate) == 2 * sampleRate

\* sin(pi * p / h) for 0 <= p <= h in 1/LfoUnit: Bhaskara's approximation
\* 16 x (1 - x) / (5 - 4 x (1 - x)) at x = p / h taken in thousandths
HalfSine(p, h) ==
    LET x == (p * 1000) \div h
    IN  (16 * x * (1000 - x) * LfoUnit) \div (5000000 - 4 * x * (1000 - x))

\* the oscillator output at a phase: generator(phase - pi) = -sin(phase)
LfoValue(phase, sampleRate) ==
    IF phase < sampleRate THEN -HalfSine(phase, sampleRate)
    ELSE HalfSine(phase - sampleRate, sampleRate)


\* ---------------------------------------------------------------- WowEngine
kMaxDelayMs == 50

baseDelayMs == 5

maxModulationMs == 45

\* the pass-through epsilon 0.001f of depth, drive and tone, in 1/DepthUnit
Epsilon == DepthUnit \div 1000

\* a percentage divided by 100 with no limit applied: value / 100.0f
NormaliseM(lo, hi, value) == TDiv(value * DepthUnit, 100 * ParamUnit)

\* a percentage in 1/ParamUnit limited to [lo, hi] percent and divided by 100,
\* in 1/DepthUnit: juce::jlimit(lo, hi, value) / 100.0f
Normalise(lo, hi, value) ==
    TDiv(jlimit(lo * ParamUnit, hi * ParamUnit, value) * DepthUnit, 100 * ParamUnit)

\* WowEngine as constructed (member initialisers)
NewWowEngine ==
    [delayLines |-> << >>, lfoPhase |-> 0, depth |-> 0, sampleRate |-> 44100,
     currentDelay |-> 0, numChannels |-> 2]

\* the maximum delay given to setMaximumDelayInSamples:
\* static_cast<int>(sampleRate * kMaxDelayMs / 1000.0f)
MaxDelayInSamples(sampleRate) == (sampleRate * kMaxDelayMs) \div 1000

\* WowEngine::reset
WowEngine_reset(we) ==
    [we EXCEPT !.delayLines = [c \in DOMAIN we.delayLines |-> DelayLine_reset(we.delayLines[c])],
               !.lfoPhase = 0,
               !.currentDelay = 0]

\* WowEngine::prepare
WowEngine_prepare(we, sampleRate, numChannels) ==
    WowEngine_reset(
        [we EXCEPT !.sampleRate = sampleRate,
                   !.numChannels = numChannels,
                   !.delayLines = [c \in 1..numChannels |->
                                      NewDelayLine(MaxDelayInSamples(sampleRate))]])

\* WowEngine::setDepth
WowEngine_setDepth(we, depth) == [we EXCEPT !.depth = Normalise(0, 100, depth)]

\* modulatedDelayMs * sampleRate / 1000 in 1/DelayUnit samples, for an LFO value
\* in 1/LfoUnit and a depth in 1/DepthUnit
ModulatedDelaySamples(lfoValue, depth, sampleRate) ==
    LET modulatedDelayMs == baseDelayMs * MsUnit + lfoValue * depth * maxModulationMs
    IN  MulDiv(modulatedDelayMs, sampleRate, MsUnit \div DelayUnit)

\* maxDelaySamples = sampleRate * kMaxDelayMs / 1000.0f in 1/DelayUnit samples
MaxDelaySamples(sampleRate) == (sampleRate * kMaxDelayMs * DelayUnit) \div 1000

\* the delay getNextSample requests: jlimit(1, maxDelaySamples - 1, modulated)
RequestedDelay(lfoValue, depth, sampleRate) ==
    jlimit(DelayUnit, MaxDelaySamples(sampleRate) - DelayUnit,
           ModulatedDelaySamples(lfoValue, depth, sampleRate))

\* a getNextSample that passes through only at a depth of exactly zero
WowEngine_getNextSampleM(we, input, channel) ==
    IF we.depth <= 0 \/ channel >= we.numChannels
    THEN [y |-> input, we |-> we, lfo |-> << >>]
    ELSE LET lfoValue == LfoValue(we.lfoPhase, we.sampleRate)
             delay    == RequestedDelay(lfoValue, we.depth, we.sampleRate)
             popped   == DelayLine_popSample(DelayLine_pushSample(
                             DelayLine_setDelay(we.delayLines[channel + 1], delay), input))
         IN  [y  |-> popped.y,
              we |-> [we EXCEPT !.lfoPhase = (we.lfoPhase + 1) % LfoPeriod(we.sampleRate),
                                !.currentDelay = delay,
                                !.delayLines[channel + 1] = popped.dl],
              lfo |-> <<we.lfoPhase>>]

\* WowEngine::getNextSample(input, channel), channel counted from 0:
\* [y |-> returned sample, we |-> engine after the call,
\*  lfo |-> << >> or <<phase read>> when the oscillator was advanced]
WowEngine_getNextSample(we, input, channel) ==
    IF we.depth <= Epsilon \/ channel >= we.numChannels
    THEN [y |-> input, we |-> we, lfo |-> << >>]
    ELSE LET lfoValue == LfoValue(we.lfoPhase, we.sampleRate)
             delay    == RequestedDelay(lfoValue, we.depth, we.sampleRate)
             set      == DelayLine_setDelay(we.delayLines[channel + 1], delay)
             pushed   == DelayLine_pushSample(set, input)
             popped   == DelayLine_popSample(pushed)
         IN  [y  |-> popped.y,
              we |-> [we EXCEPT !.lfoPhase = (we.lfoPhase + 1) % LfoPeriod(we.sampleRate),
                                !.currentDelay = delay,
                                !.delayLines[channel + 1] = popped.dl],
              lfo |-> <<we.lfoPhase>>]

\* ----------------------------------------------------------- TapeSaturation
\* kHighFreqRolloff = 0.9f in 1/DepthUnit
kHighFreqRolloff == (9 * DepthUnit) \div 10

NewTapeSaturation == [drive |-> 0, previousSample |-> Zero]

\* a reset that leaves the roll-off state as it is
TapeSaturation_resetM(ts) == ts

\* TapeSaturation::reset
TapeSaturation_reset(ts) == [ts EXCEPT !.previousSample = Zero]

\* TapeSaturation::prepare
TapeSaturation_prepare(ts) == TapeSaturation_reset(ts)

\* TapeSaturation::setDrive
TapeSaturation_setDrive(ts, drive) == [ts EXCEPT !.drive = Normalise(0, 100, drive)]

\* tanh of x given in 1/u, in 1/u: the Pade form x (27 + x^2) / (27 + 9 x^2),
\* saturated at 1 from |x| = 3 on
TanhInt(x, u) ==
    IF x >= 3 * u THEN u
    ELSE IF x <= -3 * u THEN -u
    ELSE TDiv(x * (27 * u * u + x * x), 27 * u * u + 9 * x * x)

\* std::tanh on a sample
FTanh(x) ==
    LET a == Daz(x)
    IN  CASE a.k = "nan" -> NaN
          [] a.k = "inf" -> Fin(a.v * AmpUnit)
          [] OTHER       -> Fin(TanhInt(a.v, AmpUnit))

\* TapeSaturation::processSample: [y, ts].  previousSample, the state of the
\* roll-off recursion, is kept in 1/(AmpUnit * DepthUnit) so that the recursion
\* settles where the float one does.
TapeSaturation_processSample(ts, input) ==
    IF ts.drive <= Epsilon THEN [y |-> input, ts |-> ts]
    ELSE LET driveGain     == DepthUnit + ts.drive * 9
             drivenInput   == FScale(input, driveGain, DepthUnit)
             tanhGain      == TanhInt(TDiv(driveGain * AmpUnit, DepthUnit), AmpUnit)
             normalised    == FScale(FTanh(drivenInput), AmpUnit, tanhGain)
             rolloffAmount == kHighFreqRolloff + TDiv(ts.drive * 8, 100)
             alpha         == jlimit(DepthUnit \div 10, (98 * DepthUnit) \div 100, rolloffAmount)
             previous      == FAdd(FScale(ts.previousSample, alpha, DepthUnit),
                                   FScale(normalised, DepthUnit - alpha, 1))
             compensated   == FScale(previous, 2 * DepthUnit,
                                     (2 * DepthUnit + ts.drive) * DepthUnit)
         IN  [y  |-> IF compensated.k = "den" THEN Zero ELSE compensated,
              ts |-> [ts EXCEPT !.previousSample = previous]]

\* the block the gain tests hand to the processor
SettleLength == 512

\* TapeSaturation::processSample over n >= 1 samples of one constant input, as
\* the sample loop of a block calls it: [y, ts] of the last call
RECURSIVE TapeSaturation_run(_, _, _)
TapeSaturation_run(ts, input, n) ==
    IF ts.drive >= 0 /\ n > 1
    THEN TapeSaturation_run(TapeSaturation_run(ts, input, n \div 2).ts, input, n - (n \div 2))
    ELSE TapeSaturation_processSample(ts, input)

\* -------------------------------------------------------------- ToneControl
lowFreq == 250

highFreq == 5000

maxGainDb == 6

\* the shelf Q 0.707f in 1/ParamUnit
ShelfQ == 7

NewToneControl ==
    [lowShelf  |-> [coeffs |-> ThruCoeffs, st |-> NewIIRState],
     highShelf |-> [coeffs |-> ThruCoeffs, st |-> NewIIRState],
     currentTone |-> 0, sampleRate |-> 44100]

\* juce::Decibels::decibelsToGain for a gain in 1/DepthUnit dB, result in
\* 1/DepthUnit: linear between -6 dB (0.501), 0 dB (1) and +6 dB (1.995)
decibelsToGain(db) ==
    IF db >= 0 THEN DepthUnit + TDiv(db * 995, 6 * DepthUnit)
    ELSE DepthUnit + TDiv(db * 499, 6 * DepthUnit)

\* ToneControl::reset
ToneControl_reset(tc) ==
    [tc EXCEPT !.lowShelf.st = NewIIRState, !.highShelf.st = NewIIRState]

\* an updateCoefficients that gives the low shelf the high shelf's gain
ToneControl_updateCoefficientsM(tc) ==
    LET gainDb == tc.currentTone * maxGainDb
    IN  [tc EXCEPT
           !.lowShelf.coeffs  = MakeCoeffs("lowShelf", tc.sampleRate, lowFreq * ParamUnit,
                                           ShelfQ, decibelsToGain(gainDb)),
           !.highShelf.coeffs = MakeCoeffs("highShelf", tc.sampleRate, highFreq * ParamUnit,
                                           ShelfQ, decibelsToGain(gainDb))]

\* ToneControl::updateCoefficients (each make... call heap-allocates a set)
ToneControl_updateCoefficients(tc) ==
    LET gainDb     == tc.currentTone * maxGainDb
        lowGainDb  == -gainDb
        highGainDb == gainDb
    IN  [tc EXCEPT
           !.lowShelf.coeffs  = MakeCoeffs("lowShelf", tc.sampleRate, lowFreq * ParamUnit,
                                           ShelfQ, decibelsToGain(lowGainDb)),
           !.highShelf.coeffs = MakeCoeffs("highShelf", tc.sampleRate, highFreq * ParamUnit,
                                           ShelfQ, decibelsToGain(highGainDb))]

\* ToneControl::prepare
ToneControl_prepare(tc, sampleRate) ==
    ToneControl_updateCoefficients(ToneControl_reset([tc EXCEPT !.sampleRate = sampleRate]))

\* a setTone that stores and recomputes on any change of the tone
ToneControl_setToneM(tc, tone) ==
    LET newTone == Normalise(-100, 100, tone)
    IN  IF newTone # tc.currentTone
        THEN [tc |-> ToneControl_updateCoefficients([tc EXCEPT !.currentTone = newTone]),
              allocs |-> 2]
        ELSE [tc |-> tc, allocs |-> 0]

\* ToneControl::setTone: [tc |-> control after the call,
\*                        allocs |-> coefficient sets allocated by the call]
ToneControl_setTone(tc, tone) ==
    LET newTone == Normalise(-100, 100, tone)
    IN  IF Abs(newTone - tc.currentTone) > Epsilon
        THEN [tc |-> ToneControl_updateCoefficients([tc EXCEPT !.currentTone = newTone]),
              allocs |-> 2]
        ELSE [tc |-> tc, allocs |-> 0]

\* ToneControl::processSample: [y, tc]
ToneControl_processSample(tc, input) ==
    IF Abs(tc.currentTone) <= Epsilon THEN [y |-> input, tc |-> tc]
    ELSE LET lo == IIR_processSample(tc.lowShelf.coeffs, tc.lowShelf.st, input)
             hi == IIR_processSample(tc.highShelf.coeffs, tc.highShelf.st, lo.y)
         IN  [y  |-> hi.y,
              tc |-> [tc EXCEPT !.lowShelf.st = lo.st, !.highShelf.st = hi.st]]


\* ------------------------------------------------------------------ state
VARIABLES
    params,          \* the parameters' live atomic values (APVTS raw values)
    smoothers,       \* the seven SmoothingFilter members
    wowEngine,       \* WowEngine member
    tapeSaturation,  \* TapeSaturation member
    toneControl,     \* ToneControl member
    lowCutFilter,    \* ProcessorDuplicator: shared coefficients, one history per channel
    highCutFilter,
    host,            \* what the host has configured: prepared, rate, channel counts
    buffer,          \* the audio buffer as the last processBlock call left it
    obs,             \* observations of the last operation (history variable)
    writers,         \* control-surface threads (concurrent specification)
    prep,            \* position of a prepareToPlay call in progress (concurrent specification)
    nOps             \* operations performed so far

vars == <<params, smoothers, wowEngine, tapeSaturation, toneControl, lowCutFilter,
          highCutFilter, host, buffer, obs, writers, prep, nOps>>

\* sample rates handed to prepareToPlay.  The model is scaled down so that
\* 5 ms and 50 ms are a few samples; 410 has a fractional sampleRate / 20,
\* as 22050 Hz has.
SampleRates == {400, 410}

ChannelCounts == {1, 2}

\* samples a host puts into a buffer: silence, full scale, a NaN, a subnormal
FirstSamples == {Zero, Fin(AmpUnit), NaN}

SecondSamples == {Zero, Fin(AmpUnit), Den}

Writers == {"ui", "automation"}

\* ------------------------------------------------------ resonant filter pair
NewDuplicator == [coeffs |-> ThruCoeffs, st |-> << >>]

\* ProcessorDuplicator::prepare: one filter per channel, each reset by its prepare
Duplicator_prepare(f, numChannels) == [f EXCEPT !.st = [c \in 1..numChannels |-> NewIIRState]]

\* ProcessorDuplicator::reset
Duplicator_reset(f) == [f EXCEPT !.st = [c \in DOMAIN f.st |-> NewIIRState]]

\* one channel of a block through its filter: [ys |-> samples out, st |-> history]
RECURSIVE FilterChannel(_, _, _, _)
FilterChannel(coeffs, st, xs, i) ==
    IF i > Len(xs) THEN [ys |-> << >>, st |-> st]
    ELSE LET one  == IIR_processSample(coeffs, st, xs[i])
             rest == FilterChannel(coeffs, one.st, xs, i + 1)
         IN  [ys |-> <<one.y>> \o rest.ys, st |-> rest.st]

\* ProcessorDuplicator::process(ProcessContextReplacing) on a whole block:
\* [buf |-> block after filtering, f |-> filter after the block]
Duplicator_process(f, buf) ==
    LET out == [c \in DOMAIN buf |->
                   IF c \in DOMAIN f.st THEN FilterChannel(f.coeffs, f.st[c], buf[c], 1)
                   ELSE [ys |-> buf[c], st |-> NewIIRState]]
    IN  [buf |-> [c \in DOMAIN buf |-> out[c].ys],
         f   |-> [f EXCEPT !.st = [c \in DOMAIN f.st |->
                                      IF c \in DOMAIN buf THEN out[c].st ELSE f.st[c]]]]

\* the frequency as it is, with no floor
ClampedFreqM(freq) == freq

\* juce::jmax(20.0f, freq) in 1/ParamUnit Hz
ClampedFreq(freq) == jmax(20 * ParamUnit, freq)

\* TingeTapeAudioProcessor::updateFilters:
\* [sm, lowCut, highCut |-> after the call, allocs |-> coefficient sets allocated,
\*  stepped |-> the smoothers advanced]
updateFilters(sm, lowCut, highCut, sampleRate) ==
    LET stepped == {"lowCutFreq", "lowCutRes", "highCutFreq", "highCutRes"}
        sm2 == [id \in SmootherIDs |->
                   IF id \in stepped THEN Smoother_getNextValue(sm[id]) ELSE sm[id]]
    IN  [sm      |-> sm2,
         lowCut  |-> [lowCut EXCEPT !.coeffs =
                         MakeCoeffs("hp", sampleRate, ClampedFreq(sm2["lowCutFreq"].current),
                                    sm2["lowCutRes"].current, DepthUnit)],
         highCut |-> [highCut EXCEPT !.coeffs =
                         MakeCoeffs("lp", sampleRate, ClampedFreq(sm2["highCutFreq"].current),
                                    sm2["highCutRes"].current, DepthUnit)],
         allocs  |-> 2,
         stepped |-> stepped]


\* ------------------------------------------------------------ prepareToPlay
\* the order in which prepareToPlay and the members name the smoothers
SmootherOrder == <<"wow", "lowCutFreq", "lowCutRes", "highCutFreq", "highCutRes", "dirt", "tone">>

\* smoothing times in 1/100 s: wow 50 ms, filters and tone 20 ms, drive 30 ms
SmoothingTimeCs(id) == IF id = "wow" THEN 5 ELSE IF id = "dirt" THEN 3 ELSE 2

\* prepareToPlay, the setSmoothingTime calls
PrepSmoothingTimes(sm, sampleRate) ==
    [id \in SmootherIDs |-> Smoother_setSmoothingTime(sm[id], SmoothingTimeCs(id), sampleRate)]

\* prepareToPlay, the setTargetValue(parameter->load()) calls
PrepTargets(sm, p) == [id \in SmootherIDs |-> Smoother_setTargetValue(sm[id], p[id])]

\* prepareToPlay, the snapToTarget calls
PrepSnap(sm) == [id \in SmootherIDs |-> Smoother_snapToTarget(sm[id])]

\* prepareToPlay from "Prepare DSP components" to its end, on the DSP members:
\* prepare and reset every component, then updateFilters
PrepDsp(sm, we, ts, tc, lc, hc, sampleRate, numChannels) ==
    LET we2 == WowEngine_reset(WowEngine_prepare(we, sampleRate, numChannels))
        lc2 == Duplicator_reset(Duplicator_prepare(lc, numChannels))
        hc2 == Duplicator_reset(Duplicator_prepare(hc, numChannels))
        ts2 == TapeSaturation_reset(TapeSaturation_prepare(ts))
        tc2 == ToneControl_reset(ToneControl_prepare(tc, sampleRate))
        uf  == updateFilters(sm, lc2, hc2, sampleRate)
    IN  [sm |-> uf.sm, we |-> we2, ts |-> ts2, tc |-> tc2, lc |-> uf.lowCut, hc |-> uf.highCut]

\* ------------------------------------------------------------- processBlock
NoSteps == [id \in SmootherIDs |-> 0]

\* the sample loop's working state: the members it changes, the block, the
\* position (sample from 1, channel from 0), sample_val, and what was done
Chain(sm, we, ts, tc, lc, hc, buf) ==
    [sm |-> sm, we |-> we, ts |-> ts, tc |-> tc, lc |-> lc, hc |-> hc, buf |-> buf,
     sample |-> 0, channel |-> 0, val |-> Zero,
     stages |-> << >>, ticks |-> << >>, steps |-> NoSteps, allocs |-> 0]

Logged(c, stage) == Append(c.stages, <<stage, c.sample, c.channel>>)

\* sample_val = tapeSaturation.processSample(sample_val)
StageSaturation(c) ==
    LET r == TapeSaturation_processSample(c.ts, c.val)
    IN  [c EXCEPT !.val = r.y, !.ts = r.ts, !.stages = Logged(c, "sat")]

\* sample_val = toneControl.processSample(sample_val)
StageTone(c) ==
    LET r == ToneControl_processSample(c.tc, c.val)
    IN  [c EXCEPT !.val = r.y, !.tc = r.tc, !.stages = Logged(c, "tone")]

\* sample_val = wowEngine.getNextSample(sample_val, channel)
StageWow(c) ==
    LET r == WowEngine_getNextSample(c.we, c.val, c.channel)
    IN  [c EXCEPT !.val = r.y, !.we = r.we, !.stages = Logged(c, "wow"),
                  !.ticks[c.sample].lfo = @ \o r.lfo]

\* sample_val = sanitizeFloat(sample_val)
StageSanitize(c) == [c EXCEPT !.val = sanitizeFloat(c.val), !.stages = Logged(c, "san")]

\* a channel loop body with the tone control ahead of the saturation
ChannelBodyM(c) ==
    LET read == [c EXCEPT !.val = c.buf[c.channel + 1][c.sample]]
        done == StageSanitize(StageWow(StageSaturation(StageTone(read))))
    IN  [done EXCEPT !.buf[c.channel + 1][c.sample] = done.val]

\* the body of the channel loop: getSample, the four stages, setSample
ChannelBody(c) ==
    LET read == [c EXCEPT !.val = c.buf[c.channel + 1][c.sample]]
        done == StageSanitize(StageWow(StageTone(StageSaturation(read))))
    IN  [done EXCEPT !.buf[c.channel + 1][c.sample] = done.val]

\* for (channel = 0; channel < block.getNumChannels(); ++channel)
RECURSIVE ChannelLoop(_)
ChannelLoop(c) ==
    IF c.channel >= Len(c.buf) THEN c
    ELSE ChannelLoop([ChannelBody(c) EXCEPT !.channel = c.channel + 1])

\* the head of the sample loop: three smoothers advance, the setters are called
SampleHead(c) ==
    LET sm2  == [id \in SmootherIDs |->
                    IF id \in {"dirt", "tone", "wow"} THEN Smoother_getNextValue(c.sm[id])
                    ELSE c.sm[id]]
        ts2  == TapeSaturation_setDrive(c.ts, sm2["dirt"].current)
        set  == ToneControl_setTone(c.tc, sm2["tone"].current)
        we2  == WowEngine_setDepth(c.we, sm2["wow"].current)
    IN  [c EXCEPT !.sm = sm2, !.ts = ts2, !.tc = set.tc, !.we = we2,
                  !.channel = 0,
                  !.allocs = @ + set.allocs,
                  !.steps = [id \in SmootherIDs |->
                                IF id \in {"dirt", "tone", "wow"} THEN @[id] + 1 ELSE @[id]],
                  !.ticks = Append(@, [depth |-> we2.depth, lfo |-> << >>])]

\* for (sample = 0; sample < numSamples; ++sample)
RECURSIVE SampleLoop(_)
SampleLoop(c) ==
    IF c.sample > Len(c.buf[1]) THEN c
    ELSE SampleLoop([ChannelLoop(SampleHead(c)) EXCEPT !.sample = c.sample + 1])

\* buffer.clear(i, 0, numSamples) for the output channels that have no input
ClearUnused(buf, numIn, numOut) ==
    [c \in DOMAIN buf |->
        IF c > numIn /\ c <= numOut THEN [i \in DOMAIN buf[c] |-> Zero] ELSE buf[c]]

\* a bypass test that only a value above 1 passes
IsBypassedM(p) == p["bypass"] > ParamUnit

\* bypassParameter->load() > 0.5f
IsBypassed(p) == 2 * p["bypass"] > ParamUnit

\* updateFilters() at the head of the Active branch
StageUpdateFilters(c, sampleRate) ==
    LET uf == updateFilters(c.sm, c.lc, c.hc, sampleRate)
    IN  [c EXCEPT !.sm = uf.sm, !.lc = uf.lowCut, !.hc = uf.highCut,
                  !.allocs = @ + uf.allocs,
                  !.steps = [id \in SmootherIDs |->
                                @[id] + (IF id \in uf.stepped THEN 1 ELSE 0)]]

\* lowCutFilter.process(context)
StageLowCut(c) ==
    LET r == Duplicator_process(c.lc, c.buf)
    IN  [c EXCEPT !.buf = r.buf, !.lc = r.f, !.stages = Logged(c, "hp")]

\* highCutFilter.process(context)
StageHighCut(c) ==
    LET r == Duplicator_process(c.hc, c.buf)
    IN  [c EXCEPT !.buf = r.buf, !.hc = r.f, !.stages = Logged(c, "lp")]

\* the Active branch of processBlock on a block whose unused channels are cleared:
\* updateFilters, low-cut over the block, the sample loop, high-cut over the block
ActiveChain(c, sampleRate) ==
    LET filtered == StageLowCut(StageUpdateFilters(c, sampleRate))
        looped   == SampleLoop([filtered EXCEPT !.sample = 1])
    IN  StageHighCut([looped EXCEPT !.sample = 0, !.channel = 0])

\* ------------------------------------------------------------ the processor
Idle == [pc |-> "idle", id |-> "wow", value |-> 0, left |-> MaxWrites]

PrepIdle == [pc |-> "idle", idx |-> 0, tmp |-> 0, sampleRate |-> 0, numChannels |-> 0]

NoObs ==
    [op |-> "construct", input |-> << >>, bypassed |-> FALSE, stages |-> << >>,
     ticks |-> << >>, steps |-> NoSteps, allocs |-> 0, dirty |-> {}]

\* the state after the constructor
Init ==
    /\ params = ParamDefault
    /\ smoothers = [id \in SmootherIDs |-> NewSmoother]
    /\ wowEngine = NewWowEngine
    /\ tapeSaturation = NewTapeSaturation
    /\ toneControl = NewToneControl
    /\ lowCutFilter = NewDuplicator
    /\ highCutFilter = NewDuplicator
    /\ host = [prepared |-> FALSE, sampleRate |-> 0, numIn |-> 2, numOut |-> 2]
    /\ buffer = << >>
    /\ obs = NoObs
    /\ writers = [w \in Writers |-> Idle]
    /\ prep = PrepIdle
    /\ nOps = 0

\* the audio history of the members: what a reset is to clear
History(we, ts, tc, lc, hc) ==
    [previousSample |-> ts.previousSample,
     lowShelf  |-> tc.lowShelf.st,
     highShelf |-> tc.highShelf.st,
     lowCut    |-> lc.st,
     highCut   |-> hc.st,
     delayLines |-> [c \in DOMAIN we.delayLines |->
                        [buf |-> we.delayLines[c].buf,
                         writePos |-> we.delayLines[c].writePos,
                         readPos |-> we.delayLines[c].readPos]],
     currentDelay |-> we.currentDelay,
     lfoPhase |-> we.lfoPhase]

\* the parts of the audio history in which two instances differ
Changed(before, after) == {f \in DOMAIN before : before[f] # after[f]}

\* prepareToPlay(sampleRate, samplesPerBlock) as one call, the host having set
\* the rate and the channel layout (in = out, mono or stereo) before it
PrepareToPlay(sampleRate, numChannels) ==
    /\ prep.pc = "idle"
    /\ nOps < MaxOps
    /\ \E r \in {PrepDsp(PrepSnap(PrepTargets(PrepSmoothingTimes(smoothers, sampleRate), params)),
                          wowEngine, tapeSaturation, toneControl, lowCutFilter,
                          highCutFilter, sampleRate, numChannels)} :
           /\ smoothers' = r.sm
           /\ wowEngine' = r.we
           /\ tapeSaturation' = r.ts
           /\ toneControl' = r.tc
           /\ lowCutFilter' = r.lc
           /\ highCutFilter' = r.hc
           /\ obs' = [NoObs EXCEPT !.op = "prepare",
                        !.dirty = Changed(History(wowEngine, tapeSaturation, toneControl,
                                                  lowCutFilter, highCutFilter),
                                          History(r.we, r.ts, r.tc, r.lc, r.hc))]
    /\ host' = [prepared |-> TRUE, sampleRate |-> sampleRate,
                numIn |-> numChannels, numOut |-> numChannels]
    /\ nOps' = nOps + 1
    /\ UNCHANGED <<params, buffer, writers, prep>>

\* parameterChanged(parameterID, newValue)
parameterChanged(sm, parameterID, newValue) ==
    IF parameterID \in SmootherIDs
    THEN [sm EXCEPT ![parameterID] = Smoother_setTargetValue(sm[parameterID], newValue)]
    ELSE sm

\* a control-surface write that runs to completion: the parameter's atomic store,
\* then the listener call
SetParameter(id, value) ==
    /\ prep.pc = "idle"
    /\ nOps < MaxOps
    /\ params[id] # value
    /\ params' = [params EXCEPT ![id] = value]
    /\ smoothers' = parameterChanged(smoothers, id, value)
    /\ obs' = [NoObs EXCEPT !.op = "write"]
    /\ nOps' = nOps + 1
    /\ UNCHANGED <<wowEngine, tapeSaturation, toneControl, lowCutFilter, highCutFilter,
                   host, buffer, writers, prep>>

\* the blocks a host hands in: n samples on every channel, two sample values
\* alternating over time and across channels (a first on channel 0)
InputBlock(n, numChannels, a, b) ==
    [c \in 1..numChannels |-> [i \in 1..n |-> IF (c + i) % 2 = 0 THEN a ELSE b]]

\* processBlock(buffer, midi) on a prepared processor
ProcessBlock(input) ==
    /\ host.prepared
    /\ prep.pc = "idle"
    /\ nOps < MaxOps
    /\ LET cleared == ClearUnused(input, host.numIn, host.numOut)
       IN  IF IsBypassed(params)
           THEN /\ buffer' = cleared
                /\ obs' = [NoObs EXCEPT !.op = "process", !.input = input, !.bypassed = TRUE]
                /\ UNCHANGED <<smoothers, wowEngine, tapeSaturation, toneControl,
                               lowCutFilter, highCutFilter>>
           ELSE \E r \in {ActiveChain(Chain(smoothers, wowEngine, tapeSaturation, toneControl,
                                           lowCutFilter, highCutFilter, cleared),
                                     host.sampleRate)} :
                    /\ buffer' = r.buf
                    /\ smoothers' = r.sm
                    /\ wowEngine' = r.we
                    /\ tapeSaturation' = r.ts
                    /\ toneControl' = r.tc
                    /\ lowCutFilter' = r.lc
                    /\ highCutFilter' = r.hc
                    /\ obs' = [NoObs EXCEPT !.op = "process", !.input = input,
                                 !.stages = r.stages, !.ticks = r.ticks,
                                 !.steps = r.steps, !.allocs = r.allocs]
    /\ nOps' = nOps + 1
    /\ UNCHANGED <<params, host, writers, prep>>

Next ==
    \/ \E sr \in SampleRates, nch \in ChannelCounts : PrepareToPlay(sr, nch)
    \/ \E id \in ParamIDs : \E v \in WriteValues(id) : SetParameter(id, v)
    \/ \E n \in 1..MaxBlock, a \in FirstSamples, b \in SecondSamples :
           ProcessBlock(InputBlock(n, host.numOut, a, b))

Spec == Init /\ [][Next]_vars


\* ------------------------------------------ the wow engine on its own
\* rates for the wow engine alone: the scaled ones and real ones (22050 Hz has
\* a fractional sampleRate / 20)
WowSampleRates == {400, 410, 22050, 48000}

\* LFO phases a running engine passes through: eighths of the period
PhasePoints(sampleRate) == {(k * sampleRate) \div 4 : k \in 0..7}

\* values handed to setDepth, in 1/ParamUnit percent: 0, 0.1, 25, 100 and 150
DepthInputs == {0, 1, 25 * ParamUnit, 100 * ParamUnit, 150 * ParamUnit}

\* a processor that was prepared at some rate and layout and whose LFO has run
\* to some phase since
InitWow ==
    /\ params = ParamDefault
    /\ buffer = << >>
    /\ writers = [w \in Writers |-> Idle]
    /\ prep = PrepIdle
    /\ nOps = 0
    /\ obs = [NoObs EXCEPT !.op = "prepare"]
    /\ \E sr \in WowSampleRates, nch \in ChannelCounts :
          /\ host = [prepared |-> TRUE, sampleRate |-> sr, numIn |-> nch, numOut |-> nch]
          /\ \E r \in {PrepDsp(PrepSnap(PrepTargets(PrepSmoothingTimes(
                                   [id \in SmootherIDs |-> NewSmoother], sr), ParamDefault)),
                               NewWowEngine, NewTapeSaturation, NewToneControl,
                               NewDuplicator, NewDuplicator, sr, nch)} :
                /\ smoothers = r.sm
                /\ tapeSaturation = r.ts
                /\ toneControl = r.tc
                /\ lowCutFilter = r.lc
                /\ highCutFilter = r.hc
                /\ \E ph \in PhasePoints(sr) : wowEngine = [r.we EXCEPT !.lfoPhase = ph]

\* wowEngine.setDepth(wow)
WowSetDepth(depth) ==
    /\ nOps < MaxWowOps
    /\ wowEngine' = WowEngine_setDepth(wowEngine, depth)
    /\ obs' = [NoObs EXCEPT !.op = "setDepth"]
    /\ nOps' = nOps + 1
    /\ UNCHANGED <<params, smoothers, tapeSaturation, toneControl, lowCutFilter,
                   highCutFilter, host, buffer, writers, prep>>

\* sample_val = wowEngine.getNextSample(sample_val, channel)
WowGetNextSample(input, channel) ==
    /\ nOps < MaxWowOps
    /\ \E r \in {WowEngine_getNextSample(wowEngine, input, channel)} :
          /\ wowEngine' = r.we
          /\ buffer' = <<<<r.y>>>>
          /\ obs' = [NoObs EXCEPT !.op = "wow", !.input = <<<<input>>>>,
                       !.ticks = <<[depth |-> wowEngine.depth, lfo |-> r.lfo]>>]
    /\ nOps' = nOps + 1
    /\ UNCHANGED <<params, smoothers, tapeSaturation, toneControl, lowCutFilter,
                   highCutFilter, host, writers, prep>>

\* number of consecutive getNextSample calls in a run on one channel
MaxRun == 24

\* samples fed to one channel in a run: the ramp 1, 2, ... of distinct values,
\* the sample at position bad replaced by a NaN (bad = 0: none)
RunInput(n, bad) == [k \in 1..n |-> IF k = bad THEN NaN ELSE Fin(k)]

RECURSIVE WowEngine_run(_, _, _)
\* the channel loop's call sample_val = wowEngine.getNextSample(sample_val, channel)
\* made for one channel with the samples xs in order:
\* [we |-> engine after, ys |-> returned samples, delays |-> delay set at each call]
WowEngine_run(acc, xs, channel) ==
    IF acc.we.depth >= 0 /\ Len(acc.ys) < Len(xs)
    THEN LET r == WowEngine_getNextSample(acc.we, xs[Len(acc.ys) + 1], channel)
         IN  WowEngine_run([we |-> r.we, ys |-> Append(acc.ys, r.y),
                            delays |-> Append(acc.delays, r.we.currentDelay)],
                           xs, channel)
    ELSE acc

\* a run of getNextSample calls on one channel
WowRun(xs, channel) ==
    /\ nOps < MaxWowOps
    /\ channel < wowEngine.numChannels
    /\ \E r \in {WowEngine_run([we |-> wowEngine, ys |-> << >>, delays |-> << >>],
                               xs, channel)} :
          /\ wowEngine' = r.we
          /\ buffer' = <<r.ys>>
          /\ obs' = [NoObs EXCEPT
                       !.op = "run", !.input = <<xs>>,
                       !.ticks = <<[depth  |-> wowEngine.depth,
                                    delays |-> r.delays,
                                    line   |-> wowEngine.delayLines[channel + 1]]>>]
    /\ nOps' = nOps + 1
    /\ UNCHANGED <<params, smoothers, tapeSaturation, toneControl, lowCutFilter,
                   highCutFilter, host, writers, prep>>

NextWow ==
    \/ \E d \in DepthInputs : WowSetDepth(d)
    \/ \E x \in FirstSamples, ch \in 0..1 : WowGetNextSample(x, ch)
    \/ \E bad \in {0, 3}, ch \in 0..1 : WowRun(RunInput(MaxRun, bad), ch)

SpecWow == InitWow /\ [][NextWow]_vars

\* ------------------------------- control surfaces against prepareToPlay
\* a control surface's write, first half: the parameter's atomic store
WriterStore(w, id, value) ==
    /\ writers[w].pc = "idle"
    /\ writers[w].left > 0
    /\ params' = [params EXCEPT ![id] = value]
    /\ writers' = [writers EXCEPT ![w] = [pc |-> "notify", id |-> id, value |-> value,
                                          left |-> @.left - 1]]
    /\ obs' = [NoObs EXCEPT !.op = "write"]
    /\ UNCHANGED <<smoothers, wowEngine, tapeSaturation, toneControl, lowCutFilter,
                   highCutFilter, host, buffer, prep, nOps>>

\* second half: the listener call parameterChanged(id, value) on the same thread
WriterNotify(w) ==
    /\ writers[w].pc = "notify"
    /\ smoothers' = parameterChanged(smoothers, writers[w].id, writers[w].value)
    /\ writers' = [writers EXCEPT ![w].pc = "idle"]
    /\ obs' = [NoObs EXCEPT !.op = "notify"]
    /\ UNCHANGED <<params, wowEngine, tapeSaturation, toneControl, lowCutFilter,
                   highCutFilter, host, buffer, prep, nOps>>

\* prepareToPlay is entered (no audio callback runs during it): the
\* setSmoothingTime calls
PrepBegin(sampleRate, numChannels) ==
    /\ prep.pc = "idle"
    /\ nOps < MaxOps
    /\ smoothers' = PrepSmoothingTimes(smoothers, sampleRate)
    /\ prep' = [pc |-> "load", idx |-> 1, tmp |-> 0,
                sampleRate |-> sampleRate, numChannels |-> numChannels]
    /\ obs' = [NoObs EXCEPT !.op = "preparing"]
    /\ nOps' = nOps + 1
    /\ UNCHANGED <<params, wowEngine, tapeSaturation, toneControl, lowCutFilter,
                   highCutFilter, host, buffer, writers>>

\* xParameter->load(), the argument of the next setTargetValue
PrepLoad ==
    /\ prep.pc = "load"
    /\ prep' = [prep EXCEPT !.pc = "store", !.tmp = params[SmootherOrder[prep.idx]]]
    /\ UNCHANGED <<params, smoothers, wowEngine, tapeSaturation, toneControl, lowCutFilter,
                   highCutFilter, host, buffer, obs, writers, nOps>>

\* xSmoother.setTargetValue(the value loaded)
PrepStore ==
    /\ prep.pc = "store"
    /\ smoothers' = [smoothers EXCEPT ![SmootherOrder[prep.idx]] =
                                          Smoother_setTargetValue(@, prep.tmp)]
    /\ prep' = [prep EXCEPT !.pc = IF prep.idx = Len(SmootherOrder) THEN "snap" ELSE "load",
                            !.idx = IF prep.idx = Len(SmootherOrder) THEN 0 ELSE @ + 1]
    /\ UNCHANGED <<params, wowEngine, tapeSaturation, toneControl, lowCutFilter,
                   highCutFilter, host, buffer, obs, writers, nOps>>

\* the snapToTarget calls and the rest of prepareToPlay, to its return
PrepFinish ==
    /\ prep.pc = "snap"
    /\ \E r \in {PrepDsp(PrepSnap(smoothers), wowEngine, tapeSaturation, toneControl,
                         lowCutFilter, highCutFilter, prep.sampleRate, prep.numChannels)} :
           /\ smoothers' = r.sm
           /\ wowEngine' = r.we
           /\ tapeSaturation' = r.ts
           /\ toneControl' = r.tc
           /\ lowCutFilter' = r.lc
           /\ highCutFilter' = r.hc
    /\ host' = [prepared |-> TRUE, sampleRate |-> prep.sampleRate,
                numIn |-> prep.numChannels, numOut |-> prep.numChannels]
    /\ prep' = PrepIdle
    /\ obs' = [NoObs EXCEPT !.op = "prepare"]
    /\ UNCHANGED <<params, buffer, writers, nOps>>

\* the rate the host prepares at here
ConcSampleRate == 400

\* the parameters the control surfaces write here
ConcIDs == {"wow", "tone", "bypass"}

NextConc ==
    \/ \E w \in Writers, id \in ConcIDs : \E v \in WriteValues(id) : WriterStore(w, id, v)
    \/ \E w \in Writers : WriterNotify(w)
    \/ PrepBegin(ConcSampleRate, 1)
    \/ PrepLoad
    \/ PrepStore
    \/ PrepFinish
    \/ ProcessBlock(InputBlock(1, host.numOut, Fin(AmpUnit), Zero))

SpecConc == Init /\ [][NextConc]_vars

\* ------------------------------------------------- a smoother on its own
\* smoothing times in 1/100 s and sample rates the coefficient is set from
SmoothTimesCs == {1, 2, 3, 5}

SmoothRates == {400, 410, 48000}

\* parameter values a smoother is sent to (the wow range, 1/ParamUnit percent)
TargetValues == {0, 1, 25 * ParamUnit, 26 * ParamUnit, 100 * ParamUnit}

\* a processor whose wow smoother was given a smoothing time and snapped to a
\* target; the other members are as constructed
InitSmooth ==
    /\ params = ParamDefault
    /\ wowEngine = NewWowEngine
    /\ tapeSaturation = NewTapeSaturation
    /\ toneControl = NewToneControl
    /\ lowCutFilter = NewDuplicator
    /\ highCutFilter = NewDuplicator
    /\ host = [prepared |-> FALSE, sampleRate |-> 0, numIn |-> 2, numOut |-> 2]
    /\ buffer = << >>
    /\ obs = NoObs
    /\ writers = [w \in Writers |-> Idle]
    /\ prep = PrepIdle
    /\ nOps = 0
    /\ \E t \in SmoothTimesCs, sr \in SmoothRates, v \in TargetValues :
          smoothers = [id \in SmootherIDs |->
                          IF id = "wow"
                          THEN Smoother_snapToTarget(Smoother_setTargetValue(
                                   Smoother_setSmoothingTime(NewSmoother, t, sr), v))
                          ELSE NewSmoother]

\* wowSmoother.setTargetValue(value): a step change of the target
SmoothSetTarget(value) ==
    /\ nOps < MaxSmoothOps
    /\ value # smoothers["wow"].target
    /\ smoothers' = [smoothers EXCEPT !["wow"] = Smoother_setTargetValue(@, value)]
    /\ obs' = [NoObs EXCEPT !.op = "target"]
    /\ nOps' = nOps + 1
    /\ UNCHANGED <<params, wowEngine, tapeSaturation, toneControl, lowCutFilter,
                   highCutFilter, host, buffer, writers, prep>>

\* wowSmoother.getNextValue(); the value before the call is kept for comparison
SmoothNext ==
    /\ nOps < MaxSmoothOps
    /\ smoothers' = [smoothers EXCEPT !["wow"] = Smoother_getNextValue(@)]
    /\ obs' = [NoObs EXCEPT !.op = "smooth",
                 !.ticks = <<[before |-> smoothers["wow"].current]>>]
    /\ nOps' = nOps + 1
    /\ UNCHANGED <<params, wowEngine, tapeSaturation, toneControl, lowCutFilter,
                   highCutFilter, host, buffer, writers, prep>>

NextSmooth ==
    \/ \E v \in TargetValues : SmoothSetTarget(v)
    \/ SmoothNext

SpecSmooth == InitSmooth /\ [][NextSmooth]_vars

\* ------------------------------------- setSmoothingTime on any arguments
\* smoothing times in 1/100 s (positive) and sample rates (negative, zero and
\* positive) handed to setSmoothingTime; a zero product is +0.0
CoeffTimesCs == {2, 5}

CoeffRates == {-48000, -400, 0, 400, 48000}

CoeffIDs == {"wow", "lowCutFreq"}

\* xSmoother.setSmoothingTime(seconds, sampleRate); the product is kept
CoeffSetSmoothingTime(id, timeCs, sampleRate) ==
    /\ nOps < MaxCoeffOps
    /\ smoothers' = [smoothers EXCEPT ![id] = Smoother_setSmoothingTime(@, timeCs, sampleRate)]
    /\ obs' = [NoObs EXCEPT !.op = "coeff",
                 !.ticks = <<[id |-> id, product |-> timeCs * sampleRate]>>]
    /\ nOps' = nOps + 1
    /\ UNCHANGED <<params, wowEngine, tapeSaturation, toneControl, lowCutFilter,
                   highCutFilter, host, buffer, writers, prep>>

\* xSmoother.setTargetValue(value)
CoeffSetTarget(id, value) ==
    /\ nOps < MaxCoeffOps
    /\ smoothers' = [smoothers EXCEPT ![id] = Smoother_setTargetValue(@, value)]
    /\ obs' = [NoObs EXCEPT !.op = "target"]
    /\ nOps' = nOps + 1
    /\ UNCHANGED <<params, wowEngine, tapeSaturation, toneControl, lowCutFilter,
                   highCutFilter, host, buffer, writers, prep>>

\* xSmoother.getNextValue()
CoeffGetNextValue(id) ==
    /\ nOps < MaxCoeffOps
    /\ smoothers' = [smoothers EXCEPT ![id] = Smoother_getNextValue(@)]
    /\ obs' = [NoObs EXCEPT !.op = "smooth",
                 !.ticks = <<[id |-> id, before |-> smoothers[id].current]>>]
    /\ nOps' = nOps + 1
    /\ UNCHANGED <<params, wowEngine, tapeSaturation, toneControl, lowCutFilter,
                   highCutFilter, host, buffer, writers, prep>>

\* updateFilters(), as processBlock calls it
CoeffUpdateFilters ==
    /\ nOps < MaxCoeffOps
    /\ \E r \in {updateFilters(smoothers, lowCutFilter, highCutFilter, host.sampleRate)} :
          /\ smoothers' = r.sm
          /\ lowCutFilter' = r.lowCut
          /\ highCutFilter' = r.highCut
    /\ obs' = [NoObs EXCEPT !.op = "filters"]
    /\ nOps' = nOps + 1
    /\ UNCHANGED <<params, wowEngine, tapeSaturation, toneControl, host, buffer, writers, prep>>

NextCoeff ==
    \/ \E id \in CoeffIDs, t \in CoeffTimesCs, sr \in CoeffRates :
           CoeffSetSmoothingTime(id, t, sr)
    \/ \E id \in CoeffIDs : \E v \in WriteValues(id) : CoeffSetTarget(id, v)
    \/ \E id \in CoeffIDs : CoeffGetNextValue(id)
    \/ CoeffUpdateFilters

SpecCoeff == Init /\ [][NextCoeff]_vars

\* ------------------------------- the three DSP components and their setters
\* values handed to setTone, setDrive and setDepth (1/ParamUnit percent): in
\* range, at the pass-through threshold, and out of range
ToneInputs == {-150 * ParamUnit, -2, -1, 0, 150 * ParamUnit}

DriveInputs == {-10 * ParamUnit, 25 * ParamUnit, 150 * ParamUnit}

UnitDepthInputs == {-10 * ParamUnit, 1, 150 * ParamUnit}

UnitSamples == {Fin(AmpUnit \div 2), Fin(-AmpUnit)}

\* the values last passed to the setters, << >> while a setter was never called
NoRequests == [tone |-> << >>, drive |-> << >>, depth |-> << >>]

Requests == obs.ticks[1]

\* the processor after construction and prepareToPlay
Prepared(sampleRate, numChannels) ==
    PrepDsp(PrepSnap(PrepTargets(PrepSmoothingTimes(
                [id \in SmootherIDs |-> NewSmoother], sampleRate), ParamDefault)),
            NewWowEngine, NewTapeSaturation, NewToneControl,
            NewDuplicator, NewDuplicator, sampleRate, numChannels)

\* the same after an Active block of one full-scale sample per channel, at the
\* default parameters: the components then hold signal
Warmed(sampleRate, numChannels) ==
    LET p == Prepared(sampleRate, numChannels)
    IN  ActiveChain(Chain(p.sm, p.we, p.ts, p.tc, p.lc, p.hc,
                          [c \in 1..numChannels |-> <<Fin(AmpUnit)>>]),
                    sampleRate)

\* a processor that was constructed and prepared, and has or has not processed
\* a block since
InitUnits ==
    /\ params = ParamDefault
    /\ buffer = << >>
    /\ writers = [w \in Writers |-> Idle]
    /\ prep = PrepIdle
    /\ nOps = 0
    /\ obs = [NoObs EXCEPT !.op = "prepare", !.ticks = <<NoRequests>>]
    /\ \E sr \in SampleRates, nch \in ChannelCounts :
          /\ host = [prepared |-> TRUE, sampleRate |-> sr, numIn |-> nch, numOut |-> nch]
          /\ \E r \in {Prepared(sr, nch), Warmed(sr, nch)} :
                /\ smoothers = r.sm
                /\ wowEngine = r.we
                /\ tapeSaturation = r.ts
                /\ toneControl = r.tc
                /\ lowCutFilter = r.lc
                /\ highCutFilter = r.hc

\* a processor that was constructed and then prepared at one of the rates, on a
\* mono or a stereo layout
InitAt(rates) ==
    /\ params = ParamDefault
    /\ buffer = << >>
    /\ writers = [w \in Writers |-> Idle]
    /\ prep = PrepIdle
    /\ nOps = 0
    /\ obs = [NoObs EXCEPT !.op = "prepare", !.ticks = <<NoRequests>>]
    /\ \E sr \in rates, nch \in ChannelCounts :
          /\ host = [prepared |-> TRUE, sampleRate |-> sr, numIn |-> nch, numOut |-> nch]
          /\ \E r \in {Prepared(sr, nch)} :
                /\ smoothers = r.sm
                /\ wowEngine = r.we
                /\ tapeSaturation = r.ts
                /\ toneControl = r.tc
                /\ lowCutFilter = r.lc
                /\ highCutFilter = r.hc

\* toneControl.setTone(tone)
UnitSetTone(tone) ==
    /\ nOps < MaxUnitOps
    /\ \E r \in {ToneControl_setTone(toneControl, tone)} :
          /\ toneControl' = r.tc
          /\ obs' = [NoObs EXCEPT !.op = "setTone", !.allocs = r.allocs,
                       !.ticks = <<[Requests EXCEPT !.tone = <<tone>>]>>]
    /\ nOps' = nOps + 1
    /\ UNCHANGED <<params, smoothers, wowEngine, tapeSaturation, lowCutFilter,
                   highCutFilter, host, buffer, writers, prep>>

\* sample_val = toneControl.processSample(sample_val)
UnitToneProcessSample(input) ==
    /\ nOps < MaxUnitOps
    /\ \E r \in {ToneControl_processSample(toneControl, input)} :
          /\ toneControl' = r.tc
          /\ buffer' = <<<<r.y>>>>
          /\ obs' = [NoObs EXCEPT !.op = "tone", !.input = <<<<input>>>>,
                       !.ticks = <<Requests>>,
                       !.dirty = Changed(History(wowEngine, tapeSaturation, toneControl,
                                                 lowCutFilter, highCutFilter),
                                         History(wowEngine, tapeSaturation, r.tc,
                                                 lowCutFilter, highCutFilter))]
    /\ nOps' = nOps + 1
    /\ UNCHANGED <<params, smoothers, wowEngine, tapeSaturation, lowCutFilter,
                   highCutFilter, host, writers, prep>>

\* tapeSaturation.setDrive(drive)
UnitSetDrive(drive) ==
    /\ nOps < MaxUnitOps
    /\ tapeSaturation' = TapeSaturation_setDrive(tapeSaturation, drive)
    /\ obs' = [NoObs EXCEPT !.op = "setDrive", !.ticks = <<[Requests EXCEPT !.drive = <<drive>>]>>]
    /\ nOps' = nOps + 1
    /\ UNCHANGED <<params, smoothers, wowEngine, toneControl, lowCutFilter,
                   highCutFilter, host, buffer, writers, prep>>

\* wowEngine.setDepth(depth)
UnitSetDepth(depth) ==
    /\ nOps < MaxUnitOps
    /\ wowEngine' = WowEngine_setDepth(wowEngine, depth)
    /\ obs' = [NoObs EXCEPT !.op = "setDepth", !.ticks = <<[Requests EXCEPT !.depth = <<depth>>]>>]
    /\ nOps' = nOps + 1
    /\ UNCHANGED <<params, smoothers, tapeSaturation, toneControl, lowCutFilter,
                   highCutFilter, host, buffer, writers, prep>>

\* sample_val = wowEngine.getNextSample(sample_val, channel)
UnitWowGetNextSample(input, channel) ==
    /\ nOps < MaxUnitOps
    /\ \E r \in {WowEngine_getNextSample(wowEngine, input, channel)} :
          /\ wowEngine' = r.we
          /\ buffer' = <<<<r.y>>>>
          /\ obs' = [NoObs EXCEPT !.op = "wow", !.input = <<<<input>>>>,
                       !.ticks = <<Requests>>,
                       !.dirty = Changed(History(wowEngine, tapeSaturation, toneControl,
                                                 lowCutFilter, highCutFilter),
                                         History(r.we, tapeSaturation, toneControl,
                                                 lowCutFilter, highCutFilter))]
    /\ nOps' = nOps + 1
    /\ UNCHANGED <<params, smoothers, tapeSaturation, toneControl, lowCutFilter,
                   highCutFilter, host, writers, prep>>

NextUnits ==
    \/ \E x \in UnitSamples, ch \in 0..1 : UnitWowGetNextSample(x, ch)
    \/ \E t \in ToneInputs : UnitSetTone(t)
    \/ \E x \in UnitSamples : UnitToneProcessSample(x)
    \/ \E d \in DriveInputs : UnitSetDrive(d)
    \/ \E d \in UnitDepthInputs : UnitSetDepth(d)

SpecUnits == InitUnits /\ [][NextUnits]_vars

\* ------------------------------------------------ the saturation's gain
\* the drive levels of the gain tests, 0 to 100 % (1/ParamUnit percent)
DriveLevels == {k * 25 * ParamUnit : k \in 0..4}

\* low-level samples: 0.02 and -0.03 of full scale
LowLevelSamples == {Fin(AmpUnit \div 50), Fin(-((3 * AmpUnit) \div 100))}

\* a block of SettleLength samples of one low level through
\* tapeSaturation.processSample
UnitSaturateBlock(input) ==
    /\ nOps < MaxUnitOps
    /\ \E r \in {TapeSaturation_run(tapeSaturation, input, SettleLength)} :
          /\ tapeSaturation' = r.ts
          /\ buffer' = <<<<r.y>>>>
          /\ obs' = [NoObs EXCEPT !.op = "saturate", !.input = <<<<input>>>>,
                       !.ticks = <<Requests>>]
    /\ nOps' = nOps + 1
    /\ UNCHANGED <<params, smoothers, wowEngine, toneControl, lowCutFilter,
                   highCutFilter, host, writers, prep>>

NextDrive ==
    \/ \E d \in DriveLevels : UnitSetDrive(d)
    \/ \E x \in LowLevelSamples : UnitSaturateBlock(x)

SpecDrive == InitUnits /\ [][NextDrive]_vars

\* ------------------------------------------------- two plugin instances
\* Two processors in one host.  In this specification every variable of the
\* processor holds one value per instance.
Instances == {1, 2}

\* a static data member: one object that every instance writes
OwnM(all, i, new) == [j \in DOMAIN all |-> new]

\* a data member of instance i takes a new value.  The members of
\* TingeTapeAudioProcessor are non-static: each object has its own.
Own(all, i, new) == [all EXCEPT ![i] = new]

\* samples in the blocks both instances are handed
MaxPairBlock == 4

MaxPairOps == 4

\* getStateInformation: parameters.copyState() written out as XML, every value
\* as a decimal text of sign, whole part and tenths
getStateInformation(p) ==
    [tag    |-> "Parameters",
     values |-> [id \in ParamIDs |->
                    [neg   |-> p[id] < 0,
                     whole |-> Abs(p[id]) \div ParamUnit,
                     frac  |-> Abs(p[id]) % ParamUnit]]]

\* a setStateInformation that drops the data
setStateInformationM(p, sm, data) == [params |-> p, sm |-> sm]

\* setStateInformation: the XML read back and, under the tree's own tag,
\* parameters.replaceState, which stores every value and calls parameterChanged
\* for each parameter whose value changes: [params, sm]
setStateInformation(p, sm, data) ==
    IF data.tag # "Parameters" THEN [params |-> p, sm |-> sm]
    ELSE LET read(t) == (IF t.neg THEN -1 ELSE 1) * (t.whole * ParamUnit + t.frac)
             new     == [id \in ParamIDs |-> read(data.values[id])]
         IN  [params |-> new,
              sm     |-> [id \in SmootherIDs |->
                             IF new[id] # p[id] THEN parameterChanged(sm, id, new[id])[id]
                             ELSE sm[id]]]

\* two processors constructed and prepared alike, at the default parameters
InitPair ==
    /\ params = [i \in Instances |-> ParamDefault]
    /\ host = [i \in Instances |->
                 [prepared |-> TRUE, sampleRate |-> ConcSampleRate, numIn |-> 1, numOut |-> 1]]
    /\ buffer = [i \in Instances |-> << >>]
    /\ writers = [w \in Writers |-> Idle]
    /\ prep = PrepIdle
    /\ nOps = 0
    /\ obs = [op |-> "prepare", actors |-> Instances, log |-> [i \in Instances |-> << >>]]
    /\ \E r \in {Prepared(ConcSampleRate, 1)} :
          /\ smoothers = [i \in Instances |-> r.sm]
          /\ wowEngine = [i \in Instances |-> r.we]
          /\ tapeSaturation = [i \in Instances |-> r.ts]
          /\ toneControl = [i \in Instances |-> r.tc]
          /\ lowCutFilter = [i \in Instances |-> r.lc]
          /\ highCutFilter = [i \in Instances |-> r.hc]

\* what instance i was asked to do, added to its record
Noted(op, i, entry) ==
    [op |-> op, actors |-> {i}, log |-> [obs.log EXCEPT ![i] = Append(@, entry)]]

\* prepareToPlay on instance i
PairPrepareToPlay(i) ==
    /\ nOps < MaxPairOps
    /\ \E r \in {PrepDsp(PrepSnap(PrepTargets(PrepSmoothingTimes(smoothers[i],
                                                                  host[i].sampleRate),
                                               params[i])),
                          wowEngine[i], tapeSaturation[i], toneControl[i], lowCutFilter[i],
                          highCutFilter[i], host[i].sampleRate, host[i].numOut)} :
           /\ smoothers' = Own(smoothers, i, r.sm)
           /\ wowEngine' = Own(wowEngine, i, r.we)
           /\ tapeSaturation' = Own(tapeSaturation, i, r.ts)
           /\ toneControl' = Own(toneControl, i, r.tc)
           /\ lowCutFilter' = Own(lowCutFilter, i, r.lc)
           /\ highCutFilter' = Own(highCutFilter, i, r.hc)
    /\ obs' = Noted("prepare", i, [op |-> "prepare"])
    /\ nOps' = nOps + 1
    /\ UNCHANGED <<params, host, buffer, writers, prep>>

\* a parameter of instance i written, its listener called
PairSetParameter(i, id, value) ==
    /\ nOps < MaxPairOps
    /\ params[i][id] # value
    /\ params' = Own(params, i, [params[i] EXCEPT ![id] = value])
    /\ smoothers' = Own(smoothers, i, parameterChanged(smoothers[i], id, value))
    /\ obs' = Noted("write", i, [op |-> "write", id |-> id, value |-> value])
    /\ nOps' = nOps + 1
    /\ UNCHANGED <<wowEngine, tapeSaturation, toneControl, lowCutFilter, highCutFilter,
                   host, buffer, writers, prep>>

\* processBlock on instance i
PairProcessBlock(i, input) ==
    /\ nOps < MaxPairOps
    /\ IF IsBypassed(params[i])
       THEN /\ buffer' = Own(buffer, i, input)
            /\ UNCHANGED <<smoothers, wowEngine, tapeSaturation, toneControl,
                           lowCutFilter, highCutFilter>>
       ELSE \E r \in {ActiveChain(Chain(smoothers[i], wowEngine[i], tapeSaturation[i],
                                       toneControl[i], lowCutFilter[i], highCutFilter[i],
                                       input),
                                 host[i].sampleRate)} :
                /\ buffer' = Own(buffer, i, r.buf)
                /\ smoothers' = Own(smoothers, i, r.sm)
                /\ wowEngine' = Own(wowEngine, i, r.we)
                /\ tapeSaturation' = Own(tapeSaturation, i, r.ts)
                /\ toneControl' = Own(toneControl, i, r.tc)
                /\ lowCutFilter' = Own(lowCutFilter, i, r.lc)
                /\ highCutFilter' = Own(highCutFilter, i, r.hc)
    /\ obs' = Noted("process", i, [op |-> "process", input |-> input])
    /\ nOps' = nOps + 1
    /\ UNCHANGED <<params, host, writers, prep>>

\* processor1.getStateInformation(stateData), then
\* processor2.setStateInformation(stateData.getData(), size)
PairRestore ==
    /\ nOps < MaxPairOps
    /\ \E r \in {setStateInformation(params[2], smoothers[2], getStateInformation(params[1]))} :
          /\ params' = Own(params, 2, r.params)
          /\ smoothers' = Own(smoothers, 2, r.sm)
    /\ obs' = [op |-> "restore", actors |-> {2},
               log |-> [obs.log EXCEPT ![1] = Append(@, [op |-> "save"]),
                                       ![2] = Append(@, [op |-> "restore"])]]
    /\ nOps' = nOps + 1
    /\ UNCHANGED <<wowEngine, tapeSaturation, toneControl, lowCutFilter, highCutFilter,
                   host, buffer, writers, prep>>

NextPair ==
    \/ \E i \in Instances : PairPrepareToPlay(i)
    \/ \E i \in Instances, id \in {"wow", "bypass"} : \E v \in WriteValues(id) :
           PairSetParameter(i, id, v)
    \/ \E i \in Instances, a \in {Fin(AmpUnit), Fin(AmpUnit \div 2)} :
           PairProcessBlock(i, InputBlock(MaxPairBlock, 1, a, Zero))
    \/ PairRestore

SpecPair == InitPair /\ [][NextPair]_vars

\* ------------------------------- control surfaces against processBlock
\* processBlock in the steps of its code, a control surface writing the bypass
\* parameter between any two of them.  prep holds the position of the call in
\* progress, the value loaded into isBypassed, the block as it was handed in
\* and the number of samples the sample loop has been through.

\* the Active branch was not taken: the `if (isBypassed) return;`, on the
\* parameter as it is now rather than on the local
EarlyReturnM(p, isBypassed) == IsBypassed(p)

\* `if (isBypassed) return;` on the local that processBlock loaded once:
\* nothing after it reads the parameter again
EarlyReturn(p, isBypassed) == isBypassed

\* processBlock is entered: the unused channels are cleared and the bypass
\* parameter is loaded into the local
BlockBegin(input) ==
    /\ host.prepared
    /\ prep.pc = "idle"
    /\ nOps < MaxOps
    /\ buffer' = ClearUnused(input, host.numIn, host.numOut)
    /\ prep' = [pc |-> "branch", idx |-> 0, tmp |-> IsBypassed(params),
                sampleRate |-> host.sampleRate, numChannels |-> host.numOut,
                input |-> ClearUnused(input, host.numIn, host.numOut), done |-> 0]
    /\ obs' = [NoObs EXCEPT !.op = "begin"]
    /\ nOps' = nOps + 1
    /\ UNCHANGED <<params, smoothers, wowEngine, tapeSaturation, toneControl,
                   lowCutFilter, highCutFilter, host, writers>>

\* the early return, or else updateFilters and the low-cut over the block
BlockFilters ==
    /\ prep.pc = "branch"
    /\ IF EarlyReturn(params, prep.tmp)
       THEN /\ prep' = PrepIdle
            /\ obs' = [NoObs EXCEPT !.op = "process", !.input = prep.input,
                                    !.bypassed = TRUE]
            /\ UNCHANGED <<smoothers, lowCutFilter, highCutFilter, buffer>>
       ELSE \E r \in {StageLowCut(StageUpdateFilters(
                          Chain(smoothers, wowEngine, tapeSaturation, toneControl,
                                lowCutFilter, highCutFilter, buffer),
                          host.sampleRate))} :
                /\ smoothers' = r.sm
                /\ lowCutFilter' = r.lc
                /\ highCutFilter' = r.hc
                /\ buffer' = r.buf
                /\ prep' = [prep EXCEPT !.pc = "sample", !.idx = 1]
                /\ obs' = [NoObs EXCEPT !.op = "filters"]
    /\ UNCHANGED <<params, wowEngine, tapeSaturation, toneControl, host, writers, nOps>>

\* one pass of the sample loop, or the high-cut over the block after the last
BlockSample ==
    /\ prep.pc = "sample"
    /\ IF prep.idx <= Len(buffer[1])
       THEN /\ IF EarlyReturn(params, prep.tmp)
               THEN /\ prep' = [prep EXCEPT !.idx = @ + 1]
                    /\ UNCHANGED <<smoothers, wowEngine, tapeSaturation, toneControl, buffer>>
               ELSE \E r \in {ChannelLoop(SampleHead(
                                  [Chain(smoothers, wowEngine, tapeSaturation, toneControl,
                                         lowCutFilter, highCutFilter, buffer)
                                     EXCEPT !.sample = prep.idx]))} :
                        /\ smoothers' = r.sm
                        /\ wowEngine' = r.we
                        /\ tapeSaturation' = r.ts
                        /\ toneControl' = r.tc
                        /\ buffer' = r.buf
                        /\ prep' = [prep EXCEPT !.idx = @ + 1, !.done = @ + 1]
            /\ obs' = [NoObs EXCEPT !.op = "sample"]
            /\ UNCHANGED highCutFilter
       ELSE \E r \in {StageHighCut(Chain(smoothers, wowEngine, tapeSaturation, toneControl,
                                         lowCutFilter, highCutFilter, buffer))} :
                /\ highCutFilter' = r.hc
                /\ buffer' = r.buf
                /\ prep' = PrepIdle
                /\ obs' = [NoObs EXCEPT !.op = "process", !.input = prep.input,
                                        !.steps = [id \in SmootherIDs |-> prep.done]]
                /\ UNCHANGED <<smoothers, wowEngine, tapeSaturation, toneControl>>
    /\ UNCHANGED <<params, lowCutFilter, host, writers, nOps>>

NextBlock ==
    \/ \E w \in Writers : \E v \in WriteValues("bypass") : WriterStore(w, "bypass", v)
    \/ \E w \in Writers : WriterNotify(w)
    \/ BlockBegin(InputBlock(MaxBlock, host.numOut, Fin(AmpUnit), Zero))
    \/ BlockFilters
    \/ BlockSample

SpecBlock == InitAt(SampleRates) /\ [][NextBlock]_vars

\* ------------------------------------- a processor that runs without end
\* a scaled sample rate at which the delay line's 4 slots divide the LFO's
\* period of 120 samples, so that the processor's states recur soon
RecoverRate == 60

\* nOps marks the calls made: 0 before the first, then 1 and 2 in turn
CallMark(n) == IF n = 1 THEN 2 ELSE 1

\* the sample a host feeds on every channel of a one-sample block
RecoverSamples == {Fin(AmpUnit), NaN}

\* processBlock(buffer, midi) with a one-sample block of x on every channel: a
\* NaN in the first of these blocks, finite samples in all later ones
RecoverBlock(x) ==
    /\ host.prepared
    /\ prep.pc = "idle"
    /\ IsFinite(x) <=> nOps >= 1
    /\ LET input == [c \in 1..host.numOut |-> <<x>>]
           cleared == ClearUnused(input, host.numIn, host.numOut)
       IN  IF IsBypassed(params)
           THEN /\ buffer' = cleared
                /\ obs' = [NoObs EXCEPT !.op = "process", !.input = input, !.bypassed = TRUE]
                /\ UNCHANGED <<smoothers, wowEngine, tapeSaturation, toneControl,
                               lowCutFilter, highCutFilter>>
           ELSE \E r \in {ActiveChain(Chain(smoothers, wowEngine, tapeSaturation, toneControl,
                                           lowCutFilter, highCutFilter, cleared),
                                     host.sampleRate)} :
                    /\ buffer' = r.buf
                    /\ smoothers' = r.sm
                    /\ wowEngine' = r.we
                    /\ tapeSaturation' = r.ts
                    /\ toneControl' = r.tc
                    /\ lowCutFilter' = r.lc
                    /\ highCutFilter' = r.hc
                    /\ obs' = [NoObs EXCEPT !.op = "process", !.input = input]
    /\ nOps' = CallMark(nOps)
    /\ UNCHANGED <<params, host, writers, prep>>

NextRecover == \E x \in RecoverSamples : RecoverBlock(x)

\* the host makes a processBlock call
HostCalls == host.prepared /\ prep.pc = "idle" /\ nOps' = CallMark(nOps)

\* the audio thread keeps calling processBlock for as long as the plugin is
\* loaded: a call that can be made is made
SpecRecover == InitAt({RecoverRate}) /\ [][NextRecover]_vars /\ WF_nOps(HostCalls)

\* ------------------------------------------- ExamplePlugin (gain utility)
\* most blocks and calls of one run
MaxGainOps == 4

\* createParameterLayout: gain defaultGain = 0.5 in [0, 2], bypass false
GainDefault == [gain |-> ParamUnit \div 2, bypass |-> 0]

\* values a control surface writes to the gain and the bypass parameter
GainWrites(id) == IF id = "gain" THEN {0, ParamUnit, 2 * ParamUnit} ELSE {0, ParamUnit}

\* the state after ExamplePluginAudioProcessor's constructor: gainSmoother as
\* constructed, the parameters at their defaults
InitGain ==
    /\ params = GainDefault
    /\ smoothers = [gain |-> NewSmoother]
    /\ wowEngine = NewWowEngine
    /\ tapeSaturation = NewTapeSaturation
    /\ toneControl = NewToneControl
    /\ lowCutFilter = NewDuplicator
    /\ highCutFilter = NewDuplicator
    /\ host = [prepared |-> FALSE, sampleRate |-> 0, numIn |-> 2, numOut |-> 2]
    /\ buffer = << >>
    /\ writers = [w \in Writers |-> Idle]
    /\ prep = PrepIdle
    /\ nOps = 0
    /\ obs = NoObs

\* ExamplePluginAudioProcessor::prepareToPlay
GainPrepareToPlay(sampleRate) ==
    /\ nOps < MaxGainOps
    /\ smoothers' = [smoothers EXCEPT
                       !.gain = Smoother_snapToTarget(
                                    Smoother_setSmoothingTime(smoothers.gain, 5, sampleRate))]
    /\ host' = [host EXCEPT !.prepared = TRUE, !.sampleRate = sampleRate]
    /\ obs' = [NoObs EXCEPT !.op = "prepare", !.dirty = obs.dirty]
    /\ nOps' = nOps + 1
    /\ UNCHANGED <<params, wowEngine, tapeSaturation, toneControl, lowCutFilter,
                   highCutFilter, buffer, writers, prep>>

\* a control-surface write: the parameter's atomic store, then
\* ExamplePluginAudioProcessor::parameterChanged (obs.dirty: the ids notified)
GainSetParameter(id, value) ==
    /\ nOps < MaxGainOps
    /\ params[id] # value
    /\ params' = [params EXCEPT ![id] = value]
    /\ smoothers' = IF id = "gain"
                    THEN [smoothers EXCEPT !.gain = Smoother_setTargetValue(@, value)]
                    ELSE smoothers
    /\ obs' = [NoObs EXCEPT !.op = "write", !.dirty = obs.dirty \cup {id}]
    /\ nOps' = nOps + 1
    /\ UNCHANGED <<wowEngine, tapeSaturation, toneControl, lowCutFilter, highCutFilter,
                   host, buffer, writers, prep>>

RECURSIVE GainSampleLoop(_, _, _)
\* the sample loop of ExamplePlugin's processBlock from sample i on:
\* smoothedGain = gainSmoother.getNextValue(), then every channel's sample
\* times smoothedGain, sanitized: [sm, buf]
GainSampleLoop(sm, buf, i) ==
    IF i > Len(buf[1]) THEN [sm |-> sm, buf |-> buf]
    ELSE LET next == Smoother_getNextValue(sm)
         IN  GainSampleLoop(next,
                            [c \in DOMAIN buf |->
                                [buf[c] EXCEPT ![i] = sanitizeFloat(
                                                         FScale(@, next.current, ParamUnit))]],
                            i + 1)

\* ExamplePluginAudioProcessor::processBlock
GainProcessBlock(input) ==
    /\ host.prepared
    /\ nOps < MaxGainOps
    /\ LET cleared == ClearUnused(input, host.numIn, host.numOut)
       IN  IF IsBypassed(params)
           THEN /\ buffer' = cleared
                /\ smoothers' = smoothers
                /\ obs' = [NoObs EXCEPT !.op = "process", !.input = input,
                             !.bypassed = TRUE, !.dirty = obs.dirty]
           ELSE \E r \in {GainSampleLoop(smoothers.gain, cleared, 1)} :
                    /\ buffer' = r.buf
                    /\ smoothers' = [smoothers EXCEPT !.gain = r.sm]
                    /\ obs' = [NoObs EXCEPT !.op = "process", !.input = input,
                                 !.dirty = obs.dirty]
    /\ nOps' = nOps + 1
    /\ UNCHANGED <<params, wowEngine, tapeSaturation, toneControl, lowCutFilter,
                   highCutFilter, host, writers, prep>>

NextGain ==
    \/ \E sr \in SampleRates : GainPrepareToPlay(sr)
    \/ \E id \in {"gain", "bypass"} : \E v \in GainWrites(id) : GainSetParameter(id, v)
    \/ \E n \in 1..MaxBlock : GainProcessBlock(InputBlock(n, host.numOut, Fin(AmpUnit), Zero))

SpecGain == InitGain /\ [][NextGain]_vars

\* ================================================================= claims
\* what the last operation was
Processed == obs.op = "process"

\* the bypass parameter reads above 0.5
BypassOn == 2 * params["bypass"] > ParamUnit

ProcessedActive == obs.op = "process" /\ ~BypassOn

ProcessedBypassed == obs.op = "process" /\ BypassOn

\* samples per channel and channels of the block last handed in
BlockLen == Len(obs.input[1])

BlockChannels == Len(obs.input)

\* ----------------------------------------------------------------------- C1
\* C1: when the bypass parameter reads above 0.5 at a processBlock call, every
\* sample of every input channel of the buffer is, after the call, the very
\* sample that was handed in (NaN and subnormal samples included).
C1_BypassTransparent ==
    ProcessedBypassed =>
        \A c \in 1..host.numIn : \A i \in 1..BlockLen : buffer[c][i] = obs.input[c][i]

\* a bypassed stereo block of two samples that carries a full-scale sample and a
\* subnormal one has been processed
C1_Witness ==
    /\ ProcessedBypassed
    /\ BlockChannels = 2
    /\ BlockLen = 2
    /\ obs.input[1][1] = Fin(AmpUnit)
    /\ obs.input[1][2] = Den

\* ----------------------------------------------------------------------- C2
StageNames == <<"sat", "tone", "wow", "san">>

\* the order the pipeline is to have on a block of n samples and nch channels
ExpectedStages(n, nch) ==
    [k \in 1..(4 * n * nch + 2) |->
        IF k = 1 THEN <<"hp", 0, 0>>
        ELSE IF k = 4 * n * nch + 2 THEN <<"lp", 0, 0>>
        ELSE <<StageNames[((k - 2) % 4) + 1],
               ((k - 2) \div (4 * nch)) + 1,
               ((k - 2) % (4 * nch)) \div 4>>]

C3_SmoothersPerSample ==
    ProcessedActive => \A id \in SmootherIDs : obs.steps[id] = BlockLen

\* ----------------------------------------------------------------------- C4
\* C4: in every sample tick of an Active block whose wow depth is above the
\* pass-through epsilon, the LFO is advanced exactly once whatever the channel
\* count, so that every channel of the tick is given the same LFO value.
C4_SharedLfo ==
    ProcessedActive =>
        \A t \in 1..Len(obs.ticks) :
            obs.ticks[t].depth > Epsilon => Len(obs.ticks[t].lfo) = 1

\* ----------------------------------------------------------------------- C5
\* getNextSample has run with the wow active: it advanced the LFO and set a delay
WowRequested == obs.op = "wow" /\ Len(obs.ticks[1].lfo) = 1

\* C5: for every depth and every LFO output, the delay WowEngine sets on a delay
\* line lies within [baseDelay, baseDelay + maxModulation] = [5 ms, 50 ms] at
\* the prepared sample rate.
C5_DelayWithinBaseAndMax ==
    WowRequested =>
        /\ wowEngine.currentDelay * 1000 >= baseDelayMs * host.sampleRate * DelayUnit
        /\ wowEngine.currentDelay * 1000
               <= (baseDelayMs + maxModulationMs) * host.sampleRate * DelayUnit

\* ----------------------------------------------------------------------- C6
\* the maximum delay allocated for a channel's line at prepare time, in samples
Capacity(c) == wowEngine.delayLines[c].totalSize - 1

\* C6: the delay requested from a channel's delay line is at least 1 sample and
\* at most capacity - 1 samples, capacity being the maximum delay allocated for
\* the line at prepare time.
C6_DelayBelowCapacity ==
    WowRequested =>
        \A c \in DOMAIN wowEngine.delayLines :
            /\ wowEngine.currentDelay >= DelayUnit
            /\ wowEngine.currentDelay <= (Capacity(c) - 1) * DelayUnit

\* ----------------------------------------------------------------------- C7
\* C7: no processBlock call allocates memory; the per-block resonant-filter
\* coefficient update and the per-sample tone coefficient update allocate nothing.
C7_NoAllocation == Processed => obs.allocs = 0

\* ----------------------------------------------------------------------- C8
\* C8: no sample of a buffer returned by an Active processBlock call is NaN,
\* infinite or subnormal, whatever the input held.
C8_OutputSanitized ==
    ProcessedActive =>
        \A c \in 1..BlockChannels : \A i \in 1..BlockLen : buffer[c][i].k = "fin"

\* ---------------------------------------------------------------------- C10
\* the audio history of an instance that was constructed and prepared with the
\* same rate and channel count and has processed nothing
FreshHistory(sampleRate, numChannels) ==
    LET r == PrepDsp([id \in SmootherIDs |-> NewSmoother], NewWowEngine, NewTapeSaturation,
                     NewToneControl, NewDuplicator, NewDuplicator, sampleRate, numChannels)
    IN  History(r.we, r.ts, r.tc, r.lc, r.hc)

Quiescent == prep.pc = "idle" /\ \A w \in Writers : writers[w].pc = "idle"

\* C9: once prepareToPlay has run and no write is in flight, every smoother's
\* target is the live value of its parameter, whatever the interleaving of the
\* control surfaces' writes, prepareToPlay and the audio callbacks was.
C9_TargetsFollowParameters ==
    (host.prepared /\ Quiescent) =>
        \A id \in SmootherIDs : smoothers[id].target = params[id]

\* ---------------------------------------------------------------------- C11
\* C11: after prepareToPlay returns (no parameter write running beside it), each
\* of the seven smoothers has current value = target = the live value of its
\* parameter.
C11_PrepareSnapsSmoothers ==
    obs.op = "prepare" =>
        \A id \in SmootherIDs :
            /\ smoothers[id].target = params[id]
            /\ smoothers[id].current = params[id]

\* prepareToPlay has returned after the wow and the low-cut frequency were
\* written away from their defaults
C11_Witness ==
    /\ obs.op = "prepare"
    /\ params["wow"] = ParamMax["wow"]
    /\ params["lowCutFreq"] = ParamMax["lowCutFreq"]

\* ---------------------------------------------------------------------- C12
\* getNextValue has just run on the wow smoother: the value before the call,
\* the value after it, and the target
Before == obs.ticks[1].before

After == smoothers["wow"].current

Target == smoothers["wow"].target

\* the value has not passed the target: it is on the side it was on, or on it
SameSide == (Target - After) * (Target - Before) >= 0

C13_NonPositiveGivesOne ==
    (obs.op = "coeff" /\ obs.ticks[1].product <= 0) =>
        smoothers[obs.ticks[1].id].coeff = CoeffUnit

\* ---------------------------------------------------------------------- C14
\* the tone last passed to setTone is within the pass-through threshold:
\* |t / 100| <= 0.001
NeutralRequested ==
    /\ Len(Requests.tone) = 1
    /\ Abs(Normalise(-100, 100, Requests.tone[1])) <= Epsilon

\* C14: whatever setTone calls came before, if the tone last requested is
\* within the threshold, ToneControl::processSample returns its input unchanged
\* and does not run the shelf filters.
C14_NeutralToneTransparent ==
    (obs.op = "tone" /\ NeutralRequested) =>
        /\ buffer[1][1] = obs.input[1][1]
        /\ obs.dirty \cap {"lowShelf", "highShelf"} = {}

\* ---------------------------------------------------------------------- C15
\* setTone has just computed the coefficients
CoefficientsComputed == obs.op = "setTone" /\ obs.allocs > 0

\* the high-shelf gain the tone last requested asks for, in 1/DepthUnit dB
RequestedGainDb == Normalise(-100, 100, Requests.tone[1]) * maxGainDb

\* C15: every time the tone coefficients are computed, the high shelf is given
\* the gain of normalizedTone * 6 dB and the low shelf that of the negated dB
\* value, and the magnitude is at most 6 dB whatever was passed to setTone.
C15_TiltComplementary ==
    CoefficientsComputed =>
        /\ toneControl.highShelf.coeffs.gain = decibelsToGain(RequestedGainDb)
        /\ toneControl.lowShelf.coeffs.gain = decibelsToGain(-RequestedGainDb)
        /\ Abs(RequestedGainDb) <= maxGainDb * DepthUnit

\* the coefficients were computed for a tone of +150 %, beyond the range
C15_Witness ==
    /\ CoefficientsComputed
    /\ Requests.tone = <<150 * ParamUnit>>
    /\ toneControl.highShelf.coeffs.gain > DepthUnit
    /\ toneControl.lowShelf.coeffs.gain < DepthUnit

C17_DriveScalingLaw ==
    (obs.op = "saturate" /\ tapeSaturation.drive \in {(k * DepthUnit) \div 4 : k \in 0..4}) =>
        LET x    == obs.input[1][1].v
            y    == buffer[1][1].v
            gain == DepthUnit + 9 * tapeSaturation.drive
        IN  5 * Abs(y * DepthUnit - x * gain) <= Abs(x) * DepthUnit + 15 * DepthUnit

\* C20: in every reachable state the wow depth is within [0, 1], the saturation
\* drive within [0, 1] and the tone within [-1, +1], whatever finite values were
\* passed to setDepth, setDrive and setTone.
C20_SettersClamp ==
    /\ 0 <= wowEngine.depth /\ wowEngine.depth <= DepthUnit
    /\ 0 <= tapeSaturation.drive /\ tapeSaturation.drive <= DepthUnit
    /\ -DepthUnit <= toneControl.currentTone /\ toneControl.currentTone <= DepthUnit

\* setDrive was last called with 150 % while depth -10 % and tone -150 % had
\* been requested before: every setter has clamped
C20_Witness ==
    /\ obs.op = "setDrive"
    /\ Requests.drive = <<150 * ParamUnit>>
    /\ Requests.depth = <<-10 * ParamUnit>>
    /\ Requests.tone = <<-150 * ParamUnit>>
    /\ tapeSaturation.drive = DepthUnit
    /\ wowEngine.depth = 0
    /\ toneControl.currentTone = -DepthUnit

\* what each of the two instances was asked to do since both were prepared
Log(i) == obs.log[i]

\* the state saved from instance 1 went into a fresh instance 2 and the same
\* block then went through both
RestoredAndRun ==
    /\ obs.op = "process"
    /\ Len(Log(2)) = 2 /\ Len(Log(1)) >= 2
    /\ Log(2)[1].op = "restore" /\ Log(2)[2].op = "process"
    /\ Log(1)[Len(Log(1)) - 1].op = "save"
    /\ Log(1)[Len(Log(1))] = Log(2)[2]

\* C18 as stated: after the state saved from one instance is restored into a
\* fresh, prepared instance, the same block through both gives the same output,
\* whatever the first instance handled before the save.
C18_RestoredMatches == RestoredAndRun => buffer[1] = buffer[2]

\* instance 1 handled nothing but parameter changes between its prepareToPlay
\* and the save
OnlyWritesBeforeSave == \A k \in 1..(Len(Log(1)) - 2) : Log(1)[k].op = "write"

\* C18 amended: the outputs match when both instances were prepared alike at the
\* default parameters and the first handled only parameter changes before the
\* save.
C18_RestoredMatchesFresh == (RestoredAndRun /\ OnlyWritesBeforeSave) => buffer[1] = buffer[2]

\* a changed wow depth was saved and restored, and the block came out of both
\* instances with signal in it
C18_Witness ==
    /\ RestoredAndRun /\ OnlyWritesBeforeSave
    /\ Len(Log(1)) >= 3
    /\ params[2]["wow"] # ParamDefault["wow"]
    /\ \E k \in DOMAIN buffer[2][1] : buffer[2][1][k] # Zero

\* everything instance i holds
InstanceState(i) ==
    <<params[i], smoothers[i], wowEngine[i], tapeSaturation[i], toneControl[i],
      lowCutFilter[i], highCutFilter[i], host[i], buffer[i]>>

\* C19: an operation on one instance changes nothing another instance holds,
\* and two instances asked to do the same things hold the same state and
\* output, however their operations were interleaved.
C19_InstancesIsolated ==
    /\ [][\A j \in Instances : j \notin obs'.actors => InstanceState(j)' = InstanceState(j)]_vars
    /\ [](Log(1) = Log(2) => InstanceState(1) = InstanceState(2))

\* instance 1 has just processed a block while instance 2, which was written to
\* and has processed a block of its own, holds a different state
C19_Witness ==
    /\ obs.op = "process" /\ obs.actors = {1}
    /\ \E k \in DOMAIN Log(2) : Log(2)[k].op = "process"
    /\ \E k \in DOMAIN Log(2) : Log(2)[k].op = "write"
    /\ InstanceState(1) # InstanceState(2)

\* C21: a block is either entirely passed through (no sample went through the
\* chain, no state moved and the block is as it came in) or entirely processed
\* (every sample went through the chain), whatever was written to the bypass
\* parameter while it was in progress.
C21_BlockIsWhole ==
    (obs.op = "process" /\ prep.pc = "idle") =>
        \/ obs.bypassed /\ buffer = obs.input
        \/ ~obs.bypassed /\ obs.steps["dirt"] = Len(obs.input[1])

\* a block was processed whole although bypass was switched on during it
C21_Witness ==
    /\ obs.op = "process" /\ ~obs.bypassed
    /\ obs.steps["dirt"] = Len(obs.input[1])
    /\ IsBypassed(params)

\* C22: every coefficient design of the low-cut and the high-cut filter was
\* given a cutoff of at least 20 Hz, whatever the smoothed frequency was (zero
\* or negative included).
C22_CutoffFloor ==
    /\ lowCutFilter.coeffs.type = "hp" => lowCutFilter.coeffs.freq >= 20 * ParamUnit
    /\ highCutFilter.coeffs.type = "lp" => highCutFilter.coeffs.freq >= 20 * ParamUnit

\* updateFilters has run on a low-cut frequency smoothed to below zero and on a
\* high-cut one at zero
C22_Witness ==
    /\ obs.op = "filters"
    /\ smoothers["lowCutFreq"].current < 0
    /\ smoothers["highCutFreq"].current = 0
    /\ lowCutFilter.coeffs.freq = 20 * ParamUnit
    /\ highCutFilter.coeffs.freq = 20 * ParamUnit

\* the tone control's coefficients are those of the tone it holds
CoefficientsOfAppliedTone(tc) ==
    /\ tc.lowShelf.coeffs = ToneControl_updateCoefficients(tc).lowShelf.coeffs
    /\ tc.highShelf.coeffs = ToneControl_updateCoefficients(tc).highShelf.coeffs

\* C23: a setTone call computes the shelf coefficients if and only if the new
\* normalized tone differs from the applied one by more than 0.001; after it the
\* applied tone is within 0.001 of the one requested, and the coefficients are
\* those of the applied tone.
C23_ToneThreshold ==
    [][obs'.op = "setTone" =>
          LET newTone == Normalise(-100, 100, obs'.ticks[1].tone[1])
          IN  /\ (obs'.allocs > 0) <=> (Abs(newTone - toneControl.currentTone) > Epsilon)
              /\ Abs(toneControl'.currentTone - newTone) <= Epsilon
              /\ CoefficientsOfAppliedTone(toneControl')]_vars

\* setTone was called with a tone 0.001 away from the applied one and left the
\* applied tone and the coefficients alone
C23_Witness ==
    /\ obs.op = "setTone" /\ obs.allocs = 0
    /\ Abs(Normalise(-100, 100, Requests.tone[1]) - toneControl.currentTone) = Epsilon
    /\ toneControl.currentTone # 0

\* ---------------------------------------------------------------------- C24
\* a run of getNextSample calls was made on a channel with the wow active
WowRan == obs.op = "run" /\ obs.ticks[1].depth > Epsilon

\* the first k calls of the run all set the delay of d whole samples
ConstantDelay(k, d) == \A j \in 1..k : obs.ticks[1].delays[j] = d * DelayUnit

\* the line was as reset leaves it when the run began
FreshLine == obs.ticks[1].line = DelayLine_reset(obs.ticks[1].line)

\* every sample in the line when the run began, and every sample of the run,
\* is a finite normal number
OnlyFiniteSamples ==
    /\ \A i \in DOMAIN obs.ticks[1].line.buf : obs.ticks[1].line.buf[i].k = "fin"
    /\ \A j \in 1..Len(obs.input[1]) : obs.input[1][j].k = "fin"

\* call k of the run returned the sample supplied d calls earlier, or zero when
\* fewer than d samples were pushed since the reset
ReadsDelayed(k, d) ==
    IF k > d THEN buffer[1][k] = obs.input[1][k - d]
    ELSE FreshLine => buffer[1][k] = Zero

OtherChannelsFed(input, c, x) ==
    [ch \in DOMAIN input |-> IF ch = c THEN input[ch] ELSE [i \in DOMAIN input[ch] |-> x]]

\* what an Active processBlock would have made of a block, from the state the
\* processor is in
ActiveOutput(input) ==
    ActiveChain(Chain(smoothers, wowEngine, tapeSaturation, toneControl,
                      lowCutFilter, highCutFilter,
                      ClearUnused(input, host.numIn, host.numOut)),
                host.sampleRate).buf

\* C25: in an Active stereo block the output of a channel depends only on that
\* channel's own input and the state before the block: with other samples fed
\* into the other channel, the channel's output would have been the same.
C25_ChannelsIsolated ==
    [][(obs'.op = "process" /\ ~obs'.bypassed /\ nOps' = nOps + 1
            /\ Len(obs'.input) = 2 /\ host.numIn = 2)
        => \A c \in 1..2 : \A x \in {Zero, Fin(AmpUnit)} :
              ActiveOutput(OtherChannelsFed(obs'.input, c, x))[c] = buffer'[c]]_vars

\* ---------------------------------------------------------------------- C26
\* every sample of the block processBlock last returned is finite
OutputFinite == \A c \in DOMAIN buffer : \A i \in DOMAIN buffer[c] : IsFinite(buffer[c][i])

\* C26: once a single NaN sample has entered an Active block and all later
\* input is finite, the output eventually becomes finite again and stays
\* finite, with no prepareToPlay or reset.
C26_RecoversFromNaN == [](nOps >= 1 => <>[]OutputFinite)

\* ---------------------------------------------------------------------- C27
\* the processing state: smoothers, resonant-filter coefficients and histories,
\* saturation and tone state, delay lines and LFO phase
ProcessingState ==
    <<smoothers, wowEngine, tapeSaturation, toneControl, lowCutFilter, highCutFilter>>

\* C27: a processBlock call that loads the bypass flag as on changes no processing
\* state: every smoother's current value, the resonant filters, the saturation
\* and tone state, the delay lines and the LFO phase are as the last Active
\* block left them.
C27_BypassKeepsState ==
    [][((prep'.pc = "branch" /\ prep'.tmp) \/ (prep.pc = "branch" /\ prep.tmp))
        => UNCHANGED ProcessingState]_vars

\* a bypassed block was processed by a processor whose last Active block left
\* audio in the saturation state and in a delay line
C27_Witness ==
    /\ obs.op = "process"
    /\ obs.bypassed
    /\ tapeSaturation.previousSample # Zero
    /\ \E c \in DOMAIN wowEngine.delayLines :
          wowEngine.delayLines[c] # DelayLine_reset(wowEngine.delayLines[c])

\* ---------------------------------------------------------------------- C28
\* the block with every sample multiplied by a gain in 1/ParamUnit
ScaledBy(input, gain) ==
    [c \in DOMAIN input |-> [i \in DOMAIN input[c] |-> FScale(input[c][i], gain, ParamUnit)]]

\* C28: after ExamplePlugin's prepareToPlay and before any gain parameter
\* change notification, the smoothed gain processBlock applies equals the gain
\* parameter's current value (default 0.5): a non-bypassed block is scaled by
\* the parameter value, not silenced.
C28_GainStartsAtParameter ==
    (obs.op = "process" /\ ~obs.bypassed /\ "gain" \notin obs.dirty) =>
        /\ smoothers.gain.current = params.gain
        /\ buffer = ScaledBy(obs.input, params.gain)

\* ---------------------------------------------------------------------- C29
\* C29: after prepareToPlay with a positive sample rate, for any in-range
\* parameter writes and processed blocks, the value of every smoother lies
\* between the minimum and the maximum of its parameter's declared range.
C29_SmoothedInRange ==
    host.prepared =>
        \A id \in SmootherIDs :
            /\ smoothers[id].current >= ParamMin[id]
            /\ smoothers[id].current <= ParamMax[id]

\* an Active block was processed while a smoother was gliding from its
\* parameter's default towards a target written at an end of the range
C29_Witness ==
    /\ obs.op = "process"
    /\ ~obs.bypassed
    /\ \E id \in SmootherIDs :
          /\ smoothers[id].target \in {ParamMin[id], ParamMax[id]}
          /\ smoothers[id].current # smoothers[id].target
          /\ smoothers[id].current # ParamDefault[id]

\* ---------------------------------------------------------------------- C30
\* what the wow stage returns on a channel for a run of silence fed from the
\* state the engine is in
SilenceThroughWow(we, channel) ==
    WowEngine_run([we |-> we, ys |-> << >>, delays |-> << >>],
                  [k \in 1..MaxRun |-> Zero], channel).ys

\* C30: once the wow stage has been skipped (a pass-through call at a depth
\* of at most epsilon) and the depth is raised above epsilon again, the stage
\* emits nothing that was written to a delay line before the skipped
\* interval: fed with silence from then on, it returns silence.
C30_NoStaleReplay ==
    [][(obs.op = "wow" /\ wowEngine.depth <= Epsilon
            /\ obs'.op = "setDepth" /\ wowEngine'.depth > Epsilon)
        => \A c \in 1..wowEngine'.numChannels :
              \A k \in 1..MaxRun : SilenceThroughWow(wowEngine', c - 1)[k] = Zero]_vars

====
